---- MODULE Spec2Model ----
(***************************************************************************)
(* Request signing of awscli/botocore/auth.py as a state machine.          *)
(*                                                                         *)
(* The state is one mutable request (url, headers, params, data, body,     *)
(* context), the signer that signs it, and a record of the last add_auth   *)
(* call.  Text is modelled by TLA+ strings, so canonical requests,         *)
(* strings to sign and header values are the strings the code builds.      *)
(* SHA-256 and HMAC-SHA256 are modelled symbolically (injectively): the    *)
(* digest of m is the text "sha256(m)", the tag of m under k is            *)
(* "hmac(k,m)"; two digests are equal exactly when their inputs are.       *)
(***************************************************************************)
EXTENDS Integers, Sequences, FiniteSets, TLC

\* ------------------------------------------------------------------------
\* Bounds of the model
\* ------------------------------------------------------------------------

\* add_auth calls made on the one request of a behaviour
MaxCalls == 2

\* length of the auth trait lists given to resolve_auth_type
MaxTraits == 3

\* the largest number of headers of a request given to canonical_headers
MaxHeaders == 3

\* the largest number of writes of a help document
MaxWrites == 5

\* ------------------------------------------------------------------------
\* Text helpers (Python str operations the code relies on)
\* ------------------------------------------------------------------------

\* "\n" followed by the printable ASCII characters 32..126 in code-point
\* order, so the character at index i > 1 has code point i + 30 (the
\* backquote, 96, cannot be written in a TLA+ string: "\f" holds its place)
ASCII == "\n !\"#$%&'()*+,-./0123456789:;<=>?@ABCDEFGHIJKLMNOPQRSTUVWXYZ[\\]^_\fabcdefghijklmnopqrstuvwxyz{|}~"

CharAt(s, i) == SubSeq(s, i, i)

\* the characters of ASCII, by index
ASCII_CHARS == [i \in 1..Len(ASCII) |-> CharAt(ASCII, i)]

\* the index of each character in ASCII
ASCII_INDEX ==
    [c \in { ASCII_CHARS[i] : i \in 1..Len(ASCII) } |->
        CHOOSE i \in 1..Len(ASCII) : ASCII_CHARS[i] = c]

Ord(c) == ASCII_INDEX[c]

\* the least element of a non-empty set of numbers
Least(S) == CHOOSE x \in S : \A y \in S : x <= y

\* the first index at which a and b differ, or at which one of them ends
FirstDiff(a, b) ==
    LET n == IF Len(a) < Len(b) THEN Len(a) ELSE Len(b)
        differ == { i \in 1..n : CharAt(a, i) # CharAt(b, i) }
    IN IF differ = {} THEN n + 1 ELSE Least(differ)

\* a < b in Python's str order (code points, a proper prefix first)
StrLess(a, b) ==
    IF a = b THEN FALSE
    ELSE LET i == FirstDiff(a, b) IN
         IF i > Len(a) THEN TRUE
         ELSE IF i > Len(b) THEN FALSE
         ELSE Ord(CharAt(a, i)) < Ord(CharAt(b, i))

\* sep.join(parts)
RECURSIVE Join(_, _)
Join(parts, sep) ==
    IF Len(parts) = 0 THEN ""
    ELSE IF Len(parts) = 1 THEN parts[1]
    ELSE parts[1] \o sep \o Join(Tail(parts), sep)

\* characters urllib's quote never encodes
ALWAYS_SAFE == {
    "A", "B", "C", "D", "E", "F", "G", "H", "I", "J", "K", "L", "M",
    "N", "O", "P", "Q", "R", "S", "T", "U", "V", "W", "X", "Y", "Z",
    "a", "b", "c", "d", "e", "f", "g", "h", "i", "j", "k", "l", "m",
    "n", "o", "p", "q", "r", "s", "t", "u", "v", "w", "x", "y", "z",
    "0", "1", "2", "3", "4", "5", "6", "7", "8", "9", "_", ".", "-", "~"}

HEXDIGITS == "0123456789ABCDEF"

\* %XX of one character
PercentChar(c) ==
    IF c = "\n" THEN "%0A"
    ELSE LET code == Ord(c) + 30 IN
         "%" \o CharAt(HEXDIGITS, (code \div 16) + 1)
             \o CharAt(HEXDIGITS, (code % 16) + 1)

\* urllib.parse.quote(s, safe): every character outside ALWAYS_SAFE and
\* safe becomes %XX
RECURSIVE quote(_, _)
quote(s, safe) ==
    IF Len(s) = 0 THEN ""
    ELSE IF Len(s) = 1 THEN
        IF s \in ALWAYS_SAFE \/ s \in safe THEN s ELSE PercentChar(s)
    ELSE LET m == Len(s) \div 2 IN
         quote(SubSeq(s, 1, m), safe) \o quote(SubSeq(s, m + 1, Len(s)), safe)

WHITESPACE == {" ", "\n", "\t", "\r"}

\* the k-th smallest element of a set of numbers
Kth(S, k) == CHOOSE x \in S : Cardinality({ y \in S : y <= x }) = k

\* value.split(): the maximal runs of non-whitespace characters
SplitWords(s) ==
    LET blank(i) == i < 1 \/ i > Len(s) \/ CharAt(s, i) \in WHITESPACE
        starts == { i \in 1..Len(s) : ~blank(i) /\ blank(i - 1) }
        ends == { i \in 1..Len(s) : ~blank(i) /\ blank(i + 1) }
    IN [k \in 1..Cardinality(starts) |->
           SubSeq(s, Kth(starts, k), Kth(ends, k))]

\* ------------------------------------------------------------------------
\* Python values
\* ------------------------------------------------------------------------

\* Python's None where a text is expected
None == "<None>"

\* truthiness of a text-or-None value: `if value:`
Truthy(v) == v # None /\ v # ""

\* a dict (insertion ordered) is a sequence of [k, v] items with distinct keys
DictHas(d, key) == \E i \in 1..Len(d) : d[i].k = key

DictGet(d, key) == d[CHOOSE i \in 1..Len(d) : d[i].k = key].v

\* d[key] = value
DictSet(d, key, value) ==
    IF DictHas(d, key)
    THEN [i \in 1..Len(d) |-> IF d[i].k = key THEN [k |-> key, v |-> value]
                                              ELSE d[i]]
    ELSE Append(d, [k |-> key, v |-> value])

\* d.update(other)
RECURSIVE DictUpdate(_, _)
DictUpdate(d, other) ==
    IF Len(other) = 0 THEN d
    ELSE DictUpdate(DictSet(d, other[1].k, other[1].v), Tail(other))

\* (key, value) tuples compare by key, then by value
PairLess(a, b) == StrLess(a.k, b.k) \/ (a.k = b.k /\ StrLess(a.v, b.v))

\* sorted(pairs) of (key, value) tuples, by insertion
RECURSIVE InsertPair(_, _)
InsertPair(sorted, x) ==
    IF Len(sorted) = 0 THEN <<x>>
    ELSE IF PairLess(x, sorted[1]) THEN <<x>> \o sorted
    ELSE <<sorted[1]>> \o InsertPair(Tail(sorted), x)

RECURSIVE SortedPairs(_)
SortedPairs(pairs) ==
    IF Len(pairs) = 0 THEN <<>>
    ELSE InsertPair(SortedPairs(Tail(pairs)), pairs[1])

\* ------------------------------------------------------------------------
\* hashlib / hmac, symbolically
\* ------------------------------------------------------------------------

EMPTY_SHA256_HASH ==
    "e3b0c44298fc1c149afbf4c8996fb92427ae41e4649b934ca495991b7852b855"

UNSIGNED_PAYLOAD == "UNSIGNED-PAYLOAD"

STREAMING_UNSIGNED_PAYLOAD_TRAILER == "STREAMING-UNSIGNED-PAYLOAD-TRAILER"

\* sha256(data).hexdigest()
sha256_hexdigest(data) ==
    IF data = "" THEN EMPTY_SHA256_HASH ELSE "sha256(" \o data \o ")"

\* hmac.new(key, msg, sha256).digest()
hmac_sha256(key, msg) == "hmac(" \o key \o "," \o msg \o ")"

\* ------------------------------------------------------------------------
\* Clock readings and their formats
\* ------------------------------------------------------------------------

\* a reading of the wall clock (datetime.utcnow(), time.gmtime())
Reading(y, mo, d, h, mi, s) ==
    [year |-> y, month |-> mo, day |-> d, hour |-> h, minute |-> mi,
     second |-> s]

Clock == { Reading("2015", "08", "30", "12", "36", "00"),
           Reading("2015", "08", "31", "00", "00", "00") }

\* strftime(SIGV4_TIMESTAMP): '%Y%m%dT%H%M%SZ'
SIGV4_TIMESTAMP(t) ==
    t.year \o t.month \o t.day \o "T" \o t.hour \o t.minute \o t.second \o "Z"

\* strftime(ISO8601): '%Y-%m-%dT%H:%M:%SZ'
ISO8601(t) ==
    t.year \o "-" \o t.month \o "-" \o t.day \o "T"
           \o t.hour \o ":" \o t.minute \o ":" \o t.second \o "Z"

\* datetime.strptime(text, SIGV4_TIMESTAMP)
strptime(text) ==
    Reading(SubSeq(text, 1, 4), SubSeq(text, 5, 6), SubSeq(text, 7, 8),
            SubSeq(text, 10, 11), SubSeq(text, 12, 13), SubSeq(text, 14, 15))

DigitValue(c) == (CHOOSE i \in 1..10 : CharAt("0123456789", i) = c) - 1

RECURSIVE ToInt(_)
ToInt(s) ==
    IF Len(s) = 0 THEN 0
    ELSE 10 * ToInt(SubSeq(s, 1, Len(s) - 1)) + DigitValue(CharAt(s, Len(s)))

\* day of the week, 0 = Sunday
Weekday(t) ==
    LET m == ToInt(t.month)
        y == IF m < 3 THEN ToInt(t.year) - 1 ELSE ToInt(t.year)
        off == <<0, 3, 2, 5, 0, 3, 5, 1, 4, 6, 2, 4>>
    IN (y + (y \div 4) - (y \div 100) + (y \div 400) + off[m] + ToInt(t.day)) % 7

\* email.utils.formatdate(timeval, usegmt): 'Sun, 30 Aug 2015 12:36:00 GMT'
formatdate(t, usegmt) ==
    LET days == <<"Sun", "Mon", "Tue", "Wed", "Thu", "Fri", "Sat">>
        months == <<"Jan", "Feb", "Mar", "Apr", "May", "Jun", "Jul", "Aug",
                    "Sep", "Oct", "Nov", "Dec">>
    IN days[Weekday(t) + 1] \o ", " \o t.day \o " " \o months[ToInt(t.month)]
         \o " " \o t.year \o " " \o t.hour \o ":" \o t.minute \o ":"
         \o t.second \o " " \o (IF usegmt THEN "GMT" ELSE "-0000")

\* ------------------------------------------------------------------------
\* HTTPHeaders: a case-insensitive multimap kept as the list of its
\* (name, value) entries in insertion order
\* ------------------------------------------------------------------------

UPPERCASE == {
    "A", "B", "C", "D", "E", "F", "G", "H", "I", "J", "K", "L", "M",
    "N", "O", "P", "Q", "R", "S", "T", "U", "V", "W", "X", "Y", "Z"}

\* the letters of a text lowered one by one
RECURSIVE LowerEach(_)
LowerEach(s) ==
    IF Len(s) = 0 THEN ""
    ELSE IF Len(s) = 1 THEN
        IF s \in UPPERCASE THEN ASCII_CHARS[Ord(s) + 32] ELSE s
    ELSE LET m == Len(s) \div 2 IN
         LowerEach(SubSeq(s, 1, m)) \o LowerEach(SubSeq(s, m + 1, Len(s)))

\* str.lower(): every letter A..Z becomes the letter 32 code points later;
\* a text without such a letter is its own lower()
lower(name) ==
    IF \A i \in 1..Len(name) : CharAt(name, i) \notin UPPERCASE
    THEN name ELSE LowerEach(name)

\* an entry of HTTPHeaders: the name as given, the lowercased name that
\* every lookup compares, and the value
Header(name, value) == [name |-> name, key |-> lower(name), value |-> value]

\* name in headers
HeaderIn(headers, name) ==
    LET key == lower(name)
    IN \E i \in 1..Len(headers) : headers[i].key = key

\* del headers[name]: every entry of that name goes
HeaderDel(headers, name) ==
    LET key == lower(name)
    IN SelectSeq(headers, LAMBDA h : h.key # key)

\* headers[name] = value: Message.__setitem__ appends, it never replaces
HeaderSet(headers, name, value) == Append(headers, Header(name, value))

\* headers.get_all(name)
HeaderGetAll(headers, name) ==
    LET key == lower(name)
        hit == SelectSeq(headers, LAMBDA h : h.key = key)
    IN [i \in 1..Len(hit) |-> hit[i].value]

\* headers[name], headers.get(name): the first value, or None
HeaderGet(headers, name) ==
    IF HeaderIn(headers, name) THEN HeaderGetAll(headers, name)[1] ELSE None

\* an entry whose name is its own lowercased form
LowerHeader(h) == [name |-> h.key, key |-> h.key, value |-> h.value]

\* set(headers): the distinct names as stored
HeaderNames(headers) == { headers[i].name : i \in 1..Len(headers) }

\* sorted(names)
RECURSIVE InsertString(_, _)
InsertString(sorted, x) ==
    IF Len(sorted) = 0 THEN <<x>>
    ELSE IF StrLess(x, sorted[1]) THEN <<x>> \o sorted
    ELSE <<sorted[1]>> \o InsertString(Tail(sorted), x)

RECURSIVE SortedStrings(_)
SortedStrings(names) ==
    IF names = {} THEN <<>>
    ELSE LET x == CHOOSE n \in names : TRUE
         IN InsertString(SortedStrings(names \ {x}), x)

\* str.strip()
RECURSIVE strip(_)
strip(s) ==
    IF Len(s) = 0 THEN s
    ELSE IF CharAt(s, 1) \in WHITESPACE THEN strip(SubSeq(s, 2, Len(s)))
    ELSE IF CharAt(s, Len(s)) \in WHITESPACE
         THEN strip(SubSeq(s, 1, Len(s) - 1))
    ELSE s

\* ------------------------------------------------------------------------
\* Module-level helpers of auth.py
\* ------------------------------------------------------------------------

SIGNED_HEADERS_BLACKLIST == {"expect", "user-agent", "x-amzn-trace-id"}

\* urlsplit(url) is kept split: scheme, hostname (lowercase, no userinfo),
\* port (0: none), path and the query as its list of key=value fragments,
\* each in the percent-encoding percent_encode_sequence writes; the
\* fragment is empty
Url(scheme, hostname, port, path, query) ==
    [scheme |-> scheme, hostname |-> hostname, port |-> port, path |-> path,
     query |-> query]

Item(k, v) == [k |-> k, v |-> v]

PortText(port) ==
    IF port = 80 THEN "80" ELSE IF port = 443 THEN "443" ELSE "8443"

\* the host header value derived from the url
_host_from_url(url) ==
    LET default_port == IF url.scheme = "http" THEN 80
                        ELSE IF url.scheme = "https" THEN 443 ELSE 0
    IN IF url.port # 0 /\ url.port # default_port
       THEN url.hostname \o ":" \o PortText(url.port)
       ELSE url.hostname

\* request.data is '' (kind "empty"), a dict (kind "dict") or the text of a
\* JSON object (kind "json") holding the given items
Data(kind, items) == [kind |-> kind, items |-> items]

NoData == Data("empty", <<>>)

\* `if request.data:`
DataTruthy(data) ==
    \/ data.kind = "json"
    \/ data.kind = "dict" /\ Len(data.items) > 0

\* the body params as a dict, JSON text loaded
_get_body_as_dict(request) == request.data.items

\* ------------------------------------------------------------------------
\* Signers.  A signer is [kind, credentials, auth_token, service_name,
\* region_name, expires]; kind is the name of its class and selects the
\* method a call resolves to.
\* ------------------------------------------------------------------------

\* classes that have S3SigV4Auth among their bases
S3SigV4AuthFamily ==
    {"S3SigV4Auth", "S3ExpressAuth", "S3ExpressPostAuth", "S3ExpressQueryAuth"}

\* classes that have S3ExpressAuth among their bases
S3ExpressAuthFamily ==
    {"S3ExpressAuth", "S3ExpressPostAuth", "S3ExpressQueryAuth"}

\* classes that have SigV4QueryAuth among their bases
SigV4QueryAuthFamily == {"SigV4QueryAuth", "S3SigV4QueryAuth"}

\* a result of a method that may raise: the request as the method left it
\* and the name of the exception ("" when it returned)
Returned(request) == [request |-> request, error |-> ""]

Raised(request, error) == [request |-> request, error |-> error]

\* SigV4Auth._sign
_sign(key, msg, hex) ==
    IF hex THEN "hex(" \o hmac_sha256(key, msg) \o ")"
    ELSE hmac_sha256(key, msg)

\* SigV4Auth.headers_to_sign without the test of line 236: the headers of
\* SIGNED_HEADERS_BLACKLIST are signed like any other
headers_to_sign_every_header(self, request) ==
    LET header_map == [i \in 1..Len(request.headers) |->
                           LowerHeader(request.headers[i])]
    IN IF ~HeaderIn(header_map, "host")
       THEN HeaderSet(header_map, "host", _host_from_url(request.url))
       ELSE header_map

\* SigV4Auth.headers_to_sign with line 241 outside the test of line 238:
\* host is added from the url whether or not the request carries it
headers_to_sign_always_adding_host(self, request) ==
    LET kept == SelectSeq(request.headers,
                    LAMBDA h : h.key \notin SIGNED_HEADERS_BLACKLIST)
        header_map == [i \in 1..Len(kept) |->
                           LowerHeader(kept[i])]
    IN HeaderSet(header_map, "host", _host_from_url(request.url))

\* SigV4Auth.headers_to_sign: the header_map, as its list of entries
headers_to_sign(self, request) ==
    LET kept == SelectSeq(request.headers,
                    LAMBDA h : h.key \notin SIGNED_HEADERS_BLACKLIST)
        header_map == [i \in 1..Len(kept) |->
                           LowerHeader(kept[i])]
    IN IF ~HeaderIn(header_map, "host")
       THEN HeaderSet(header_map, "host", _host_from_url(request.url))
       ELSE header_map

\* SigV4Auth._canonical_query_string_params
_canonical_query_string_params(self, params) ==
    LET key_val_pairs == [i \in 1..Len(params) |->
            Item(quote(params[i].k, {"-", "_", ".", "~"}),
                 quote(params[i].v, {"-", "_", ".", "~"}))]
        sorted_pairs == SortedPairs(key_val_pairs)
    IN Join([i \in 1..Len(sorted_pairs) |->
                 sorted_pairs[i].k \o "=" \o sorted_pairs[i].v], "&")

\* the text of the url's query: percent_encode of each key and value
QueryFragments(query) ==
    [i \in 1..Len(query) |->
        Item(quote(query[i].k, {"-", "_", ".", "~"}),
             quote(query[i].v, {"-", "_", ".", "~"}))]

\* SigV4Auth._canonical_query_string_url
_canonical_query_string_url(self, parts) ==
    IF Len(parts.query) > 0
    THEN LET sorted_pairs == SortedPairs(QueryFragments(parts.query))
         IN Join([i \in 1..Len(sorted_pairs) |->
                      sorted_pairs[i].k \o "=" \o sorted_pairs[i].v], "&")
    ELSE ""

\* SigV4Auth.canonical_query_string
canonical_query_string(self, request) ==
    IF Len(request.params) > 0
    THEN _canonical_query_string_params(self, request.params)
    ELSE _canonical_query_string_url(self, request.url)

\* SigV4Auth._header_value: Trimall
_header_value(self, value) == Join(SplitWords(value), " ")

\* SigV4Auth.canonical_headers; a value that is None has no split method
canonical_headers_raises(self, to_sign) ==
    \E i \in 1..Len(to_sign) : to_sign[i].value = None

\* SigV4Auth.canonical_headers with Trimall applied to the joined values
\* instead of to each value
canonical_headers_joining_before_trimall(self, to_sign) ==
    LET sorted_header_names == SortedStrings(HeaderNames(to_sign))
        line(key) ==
            key \o ":" \o _header_value(self,
                               Join(HeaderGetAll(to_sign, key), ","))
    IN Join([i \in 1..Len(sorted_header_names) |->
                 line(sorted_header_names[i])], "\n")

canonical_headers(self, to_sign) ==
    LET sorted_header_names == SortedStrings(HeaderNames(to_sign))
        line(key) ==
            LET values == HeaderGetAll(to_sign, key)
            IN key \o ":" \o Join([i \in 1..Len(values) |->
                                      _header_value(self, values[i])], ",")
    IN Join([i \in 1..Len(sorted_header_names) |->
                 line(sorted_header_names[i])], "\n")

\* SigV4Auth.signed_headers
signed_headers(self, to_sign) ==
    LET l == SortedStrings({ strip(lower(n)) : n \in HeaderNames(to_sign) })
    IN Join(l, ";")

\* SigV4Auth._is_streaming_checksum_payload
_is_streaming_checksum_payload(self, request) ==
    request.context.checksum.in = "trailer"

\* SigV4Auth._should_sha256_sign_payload
SigV4Auth_should_sha256_sign_payload(self, request) ==
    IF request.url.scheme # "https" THEN TRUE
    ELSE request.context.payload_signing_enabled

\* S3SigV4Auth._should_sha256_sign_payload with the test of
\* has_streaming_input ahead of the test of the scheme and checksum header
S3SigV4Auth_should_sha256_sign_payload_streaming_first(self, request) ==
    LET sign_payload == request.context.s3_payload_signing_enabled
        checksum_header ==
            IF request.context.checksum.in = "header"
            THEN request.context.checksum.name ELSE "Content-MD5"
    IN IF sign_payload # None THEN sign_payload = "True"
       ELSE IF request.context.has_streaming_input THEN FALSE
       ELSE IF request.url.scheme # "https"
               \/ ~HeaderIn(request.headers, checksum_header) THEN TRUE
       ELSE SigV4Auth_should_sha256_sign_payload(self, request)

\* S3SigV4Auth._should_sha256_sign_payload
S3SigV4Auth_should_sha256_sign_payload(self, request) ==
    LET sign_payload == request.context.s3_payload_signing_enabled
        checksum_header ==
            IF request.context.checksum.in = "header"
            THEN request.context.checksum.name ELSE "Content-MD5"
    IN IF sign_payload # None THEN sign_payload = "True"
       ELSE IF request.url.scheme # "https"
               \/ ~HeaderIn(request.headers, checksum_header) THEN TRUE
       ELSE IF request.context.has_streaming_input THEN FALSE
       ELSE SigV4Auth_should_sha256_sign_payload(self, request)

_should_sha256_sign_payload(self, request) ==
    IF self.kind \in S3SigV4AuthFamily
    THEN S3SigV4Auth_should_sha256_sign_payload(self, request)
    ELSE SigV4Auth_should_sha256_sign_payload(self, request)

\* a request body: absent, bytes, or a seekable reader over chunks of
\* PAYLOAD_BUFFER bytes standing after pos of them; fail_at = k > 0 makes
\* the read of chunk k raise
Body(kind, bytes, chunks, pos, fail_at) ==
    [kind |-> kind, bytes |-> bytes, chunks |-> chunks, pos |-> pos,
     fail_at |-> fail_at]

NoBody == Body("none", "", <<>>, 0, 0)

BodyTruthy(body) ==
    body.kind = "reader" \/ (body.kind = "bytes" /\ body.bytes # "")

\* the read loop of SigV4Auth.payload: whether a read raises, and where
\* the reader stands when the loop ends
ReadRaises(body) == body.fail_at > body.pos /\ body.fail_at <= Len(body.chunks)

PositionAfterReads(body) ==
    IF ReadRaises(body) THEN body.fail_at - 1 ELSE Len(body.chunks)

\* request_body.seek(position)
seek(body, position) == [body EXCEPT !.pos = position]

\* SigV4Auth.payload with its first two tests in the other order
SigV4Auth_payload_unsigned_before_trailer(self, request) ==
    LET request_body == request.body
        same(value) == [value |-> value, body |-> request_body, error |-> ""]
    IN IF ~_should_sha256_sign_payload(self, request)
       THEN same(UNSIGNED_PAYLOAD)
       ELSE IF _is_streaming_checksum_payload(self, request)
       THEN same(STREAMING_UNSIGNED_PAYLOAD_TRAILER)
       ELSE IF BodyTruthy(request_body) /\ request_body.kind = "reader"
       THEN LET position == request_body.pos
                consumed == seek(request_body, PositionAfterReads(request_body))
            IN IF ReadRaises(request_body)
               THEN [value |-> "", body |-> consumed, error |-> "IOError"]
               ELSE [value |-> sha256_hexdigest(Join(
                                  SubSeq(request_body.chunks, position + 1,
                                         Len(request_body.chunks)), "")),
                     body |-> seek(consumed, position),
                     error |-> ""]
       ELSE IF BodyTruthy(request_body)
       THEN same(sha256_hexdigest(request_body.bytes))
       ELSE same(EMPTY_SHA256_HASH)

\* SigV4Auth.payload: [value, body as left, error]
SigV4Auth_payload(self, request) ==
    LET request_body == request.body
        same(value) == [value |-> value, body |-> request_body, error |-> ""]
    IN IF _is_streaming_checksum_payload(self, request)
       THEN same(STREAMING_UNSIGNED_PAYLOAD_TRAILER)
       ELSE IF ~_should_sha256_sign_payload(self, request)
       THEN same(UNSIGNED_PAYLOAD)
       ELSE IF BodyTruthy(request_body) /\ request_body.kind = "reader"
       THEN LET position == request_body.pos
                consumed == seek(request_body, PositionAfterReads(request_body))
            IN IF ReadRaises(request_body)
               THEN [value |-> "", body |-> consumed, error |-> "IOError"]
               ELSE [value |-> sha256_hexdigest(Join(
                                  SubSeq(request_body.chunks, position + 1,
                                         Len(request_body.chunks)), "")),
                     body |-> seek(consumed, position),
                     error |-> ""]
       ELSE IF BodyTruthy(request_body)
       THEN same(sha256_hexdigest(request_body.bytes))
       ELSE same(EMPTY_SHA256_HASH)

\* the payload method without the overrides of lines 679 and 781: the
\* presigned-url signers hash the body as SigV4Auth does
S3SigV4QueryAuth_payload_hashing_the_body(self, request) ==
    SigV4Auth_payload(self, request)

\* S3SigV4QueryAuth.payload, S3ExpressQueryAuth.payload
S3SigV4QueryAuth_payload(self, request) ==
    [value |-> UNSIGNED_PAYLOAD, body |-> request.body, error |-> ""]

payload(self, request) ==
    IF self.kind \in {"S3SigV4QueryAuth", "S3ExpressQueryAuth"}
    THEN S3SigV4QueryAuth_payload(self, request)
    ELSE SigV4Auth_payload(self, request)

\* str.split(sep) for a one-character sep
Split(s, sep) ==
    LET at == { i \in 1..Len(s) : CharAt(s, i) = sep }
        n == Cardinality(at)
        cut(k) == IF k = 0 THEN 0
                  ELSE IF k > n THEN Len(s) + 1 ELSE Kth(at, k)
    IN [k \in 1..(n + 1) |-> SubSeq(s, cut(k - 1) + 1, cut(k) - 1)]

\* botocore.utils.remove_dot_segments: the loop over the segments
RECURSIVE RemoveDots(_, _)
RemoveDots(input, output) ==
    IF Len(input) = 0 THEN output
    ELSE LET x == input[1] IN
         IF x # "" /\ x # "."
         THEN IF x = ".."
              THEN RemoveDots(Tail(input),
                              IF Len(output) > 0
                              THEN SubSeq(output, 1, Len(output) - 1)
                              ELSE output)
              ELSE RemoveDots(Tail(input), Append(output, x))
         ELSE RemoveDots(Tail(input), output)

\* botocore.utils.normalize_url_path: '.' and '..' resolved, duplicate
\* slashes collapsed, '/' for the empty path
normalize_url_path(path) ==
    IF path = "" THEN "/"
    ELSE LET output_list == RemoveDots(Split(path, "/"), <<>>)
             first == IF CharAt(path, 1) = "/" THEN "/" ELSE ""
             last == IF CharAt(path, Len(path)) = "/" /\ Len(output_list) > 0
                     THEN "/" ELSE ""
         IN first \o Join(output_list, "/") \o last

\* SigV4Auth._normalize_url_path
SigV4Auth_normalize_url_path(self, path) ==
    quote(normalize_url_path(path), {"/", "~"})

\* S3SigV4Auth, S3ExpressQueryAuth, S3SigV4QueryAuth._normalize_url_path
S3SigV4Auth_normalize_url_path(self, path) == path

_normalize_url_path(self, path) ==
    IF self.kind \in S3SigV4AuthFamily \/ self.kind = "S3SigV4QueryAuth"
    THEN S3SigV4Auth_normalize_url_path(self, path)
    ELSE SigV4Auth_normalize_url_path(self, path)

\* str.upper() on the methods of the model
upper(method) ==
    CASE method = "get" -> "GET"
      [] method = "post" -> "POST"
      [] OTHER -> method

\* SigV4Auth.canonical_request: [text, body as left, error]
canonical_request(self, request) ==
    LET path == _normalize_url_path(self, request.url.path)
        to_sign == headers_to_sign(self, request)
        body_checksum ==
            IF HeaderIn(request.headers, "X-Amz-Content-SHA256")
            THEN [value |-> HeaderGet(request.headers, "X-Amz-Content-SHA256"),
                  body |-> request.body, error |-> ""]
            ELSE payload(self, request)
    IN IF canonical_headers_raises(self, to_sign)
       THEN [text |-> "", body |-> request.body, error |-> "AttributeError"]
       ELSE IF body_checksum.error # ""
       THEN [text |-> "", body |-> body_checksum.body,
             error |-> body_checksum.error]
       ELSE [text |-> Join(<<upper(request.method),
                             path,
                             canonical_query_string(self, request),
                             canonical_headers(self, to_sign) \o "\n",
                             signed_headers(self, to_sign),
                             body_checksum.value>>, "\n"),
             body |-> body_checksum.body,
             error |-> ""]

\* SigV4Auth.scope
scope(self, request) ==
    Join(<<self.credentials.access_key,
           SubSeq(request.context.timestamp, 1, 8),
           self.region_name,
           self.service_name,
           "aws4_request">>, "/")

\* SigV4Auth.credential_scope
credential_scope(self, request) ==
    Join(<<SubSeq(request.context.timestamp, 1, 8),
           self.region_name,
           self.service_name,
           "aws4_request">>, "/")

\* SigV4Auth.string_to_sign
string_to_sign(self, request, canonical) ==
    Join(<<"AWS4-HMAC-SHA256",
           request.context.timestamp,
           credential_scope(self, request),
           sha256_hexdigest(canonical)>>, "\n")

\* SigV4Auth.signature
signature(self, to_sign, request) ==
    LET key == self.credentials.secret_key
        k_date == _sign("AWS4" \o key,
                        SubSeq(request.context.timestamp, 1, 8), FALSE)
        k_region == _sign(k_date, self.region_name, FALSE)
        k_service == _sign(k_region, self.service_name, FALSE)
        k_signing == _sign(k_service, "aws4_request", FALSE)
    IN _sign(k_signing, to_sign, TRUE)

\* SigV4Auth._set_necessary_date_headers without the removal of lines
\* 462-463: an X-Amz-Date the request already carries is kept
_set_necessary_date_headers_keeping_X_Amz_Date(self, request) ==
    IF HeaderIn(request.headers, "Date")
    THEN LET datetime_timestamp == strptime(request.context.timestamp)
             dated == HeaderSet(HeaderDel(request.headers, "Date"), "Date",
                                formatdate(datetime_timestamp, FALSE))
         IN IF HeaderIn(dated, "X-Amz-Date")
            THEN HeaderDel(dated, "X-Amz-Date") ELSE dated
    ELSE HeaderSet(request.headers, "X-Amz-Date", request.context.timestamp)

\* SigV4Auth._set_necessary_date_headers without the branch for a request
\* that has a Date header: X-Amz-Date is written whatever the request holds
_set_necessary_date_headers_always_X_Amz_Date(self, request) ==
    HeaderSet(HeaderDel(request.headers, "X-Amz-Date"), "X-Amz-Date",
              request.context.timestamp)

\* SigV4Auth._set_necessary_date_headers: the headers it leaves
_set_necessary_date_headers(self, request) ==
    IF HeaderIn(request.headers, "Date")
    THEN LET datetime_timestamp == strptime(request.context.timestamp)
             dated == HeaderSet(HeaderDel(request.headers, "Date"), "Date",
                                formatdate(datetime_timestamp, FALSE))
         IN IF HeaderIn(dated, "X-Amz-Date")
            THEN HeaderDel(dated, "X-Amz-Date") ELSE dated
    ELSE HeaderSet(HeaderDel(request.headers, "X-Amz-Date"), "X-Amz-Date",
                   request.context.timestamp)

\* SigV4Auth._modify_request_before_signing without the removal of an earlier
\* Authorization header (lines 436-437)
SigV4Auth_modify_request_keeping_Authorization(self, request) ==
    LET h1 == _set_necessary_date_headers(self, request)
        h2 == IF Truthy(self.credentials.token)
              THEN HeaderSet(HeaderDel(h1, "X-Amz-Security-Token"),
                             "X-Amz-Security-Token", self.credentials.token)
              ELSE h1
        h3 == IF ~request.context.payload_signing_enabled
              THEN HeaderSet(HeaderDel(h2, "X-Amz-Content-SHA256"),
                             "X-Amz-Content-SHA256", UNSIGNED_PAYLOAD)
              ELSE h2
    IN Returned([request EXCEPT !.headers = h3])

\* SigV4Auth._modify_request_before_signing: the headers it leaves
SigV4Auth_modify_request_before_signing(self, request) ==
    LET h0 == IF HeaderIn(request.headers, "Authorization")
              THEN HeaderDel(request.headers, "Authorization")
              ELSE request.headers
        h1 == _set_necessary_date_headers(self,
                                          [request EXCEPT !.headers = h0])
        h2 == IF Truthy(self.credentials.token)
              THEN HeaderSet(HeaderDel(h1, "X-Amz-Security-Token"),
                             "X-Amz-Security-Token", self.credentials.token)
              ELSE h1
        h3 == IF ~request.context.payload_signing_enabled
              THEN HeaderSet(HeaderDel(h2, "X-Amz-Content-SHA256"),
                             "X-Amz-Content-SHA256", UNSIGNED_PAYLOAD)
              ELSE h2
    IN Returned([request EXCEPT !.headers = h3])

\* S3SigV4Auth._modify_request_before_signing, line 473: the header is
\* set to the payload hash, unless hashing raised
S3SigV4Auth_set_content_sha256(self, cleared, hashed) ==
    IF hashed.error # ""
    THEN Raised([cleared EXCEPT !.body = hashed.body], hashed.error)
    ELSE Returned([cleared EXCEPT
             !.body = hashed.body,
             !.headers = HeaderSet(@, "X-Amz-Content-SHA256", hashed.value)])

\* S3SigV4Auth._modify_request_before_signing, lines 470-473: an
\* X-Amz-Content-SHA256 header goes, then the payload is hashed
S3SigV4Auth_replace_content_sha256(self, cleared) ==
    S3SigV4Auth_set_content_sha256(self, cleared, payload(self, cleared))

\* S3SigV4Auth._modify_request_before_signing
S3SigV4Auth_modify_request_before_signing(self, request) ==
    S3SigV4Auth_replace_content_sha256(self,
        [SigV4Auth_modify_request_before_signing(self, request).request
            EXCEPT !.headers = HeaderDel(@, "X-Amz-Content-SHA256")])

\* S3ExpressAuth._modify_request_before_signing, lines 533-537: the session
\* token header is added, X-Amz-Security-Token goes
S3ExpressAuth_set_session_token(self, base) ==
    LET h0 == base.request.headers
        h1 == IF ~HeaderIn(h0, "x-amz-s3session-token")
              THEN HeaderSet(h0, "x-amz-s3session-token",
                             self.credentials.token)
              ELSE h0
        h2 == IF HeaderIn(h1, "X-Amz-Security-Token")
              THEN HeaderDel(h1, "X-Amz-Security-Token") ELSE h1
    IN IF base.error # "" THEN base
       ELSE Returned([base.request EXCEPT !.headers = h2])

\* S3ExpressAuth._modify_request_before_signing
S3ExpressAuth_modify_request_before_signing(self, request) ==
    S3ExpressAuth_set_session_token(self,
        S3SigV4Auth_modify_request_before_signing(self, request))

\* str(n) for a natural number
RECURSIVE str(_)
str(n) ==
    IF n < 10 THEN CharAt("0123456789", n + 1)
    ELSE str(n \div 10) \o CharAt("0123456789", (n % 10) + 1)

\* {k: v[0] for k, v in parse_qs(query, keep_blank_values=True).items()}
RECURSIVE FirstValues(_, _)
FirstValues(query, dict) ==
    IF Len(query) = 0 THEN dict
    ELSE FirstValues(Tail(query),
                     IF DictHas(dict, query[1].k) THEN dict
                     ELSE Append(dict, query[1]))

BLACKLISTED_CONTENT_TYPE == "application/x-www-form-urlencoded; charset=utf-8"

\* SigV4QueryAuth._modify_request_before_signing
SigV4QueryAuth_modify_request_before_signing(self, request) ==
    LET content_type == HeaderGet(request.headers, "content-type")
        h0 == IF content_type = BLACKLISTED_CONTENT_TYPE
              THEN HeaderDel(request.headers, "content-type")
              ELSE request.headers
        r0 == [request EXCEPT !.headers = h0]
        signed == signed_headers(self, headers_to_sign(self, r0))
        auth_params ==
            <<Item("X-Amz-Algorithm", "AWS4-HMAC-SHA256"),
              Item("X-Amz-Credential", scope(self, r0)),
              Item("X-Amz-Date", r0.context.timestamp),
              Item("X-Amz-Expires", str(self.expires)),
              Item("X-Amz-SignedHeaders", signed)>>
            \o (IF self.credentials.token # None
                THEN <<Item("X-Amz-Security-Token", self.credentials.token)>>
                ELSE <<>>)
        query_dict0 == FirstValues(r0.url.query, <<>>)
        query_dict == IF DataTruthy(r0.data)
                      THEN DictUpdate(query_dict0, _get_body_as_dict(r0))
                      ELSE query_dict0
        new_query_string == query_dict \o auth_params
    IN Returned([r0 EXCEPT
           !.data = IF DataTruthy(r0.data) THEN NoData ELSE @,
           !.url.query = new_query_string])

\* S3ExpressQueryAuth._modify_request_before_signing
S3ExpressQueryAuth_modify_request_before_signing(self, request) ==
    LET content_type == HeaderGet(request.headers, "content-type")
        h0 == IF content_type = BLACKLISTED_CONTENT_TYPE
              THEN HeaderDel(request.headers, "content-type")
              ELSE request.headers
        r0 == [request EXCEPT !.headers = h0]
        signed == signed_headers(self, headers_to_sign(self, r0))
        auth_params ==
            <<Item("X-Amz-Algorithm", "AWS4-HMAC-SHA256"),
              Item("X-Amz-Credential", scope(self, r0)),
              Item("X-Amz-Date", r0.context.timestamp),
              Item("X-Amz-Expires", str(self.expires)),
              Item("X-Amz-SignedHeaders", signed)>>
            \o (IF self.credentials.token # None
                THEN <<Item("X-Amz-S3session-Token", self.credentials.token)>>
                ELSE <<>>)
        query_dict0 == FirstValues(r0.url.query, <<>>)
        query_dict1 == IF Len(r0.params) > 0
                       THEN DictUpdate(query_dict0, r0.params)
                       ELSE query_dict0
        query_dict == IF DataTruthy(r0.data)
                      THEN DictUpdate(query_dict1, _get_body_as_dict(r0))
                      ELSE query_dict1
        new_query_string == query_dict \o auth_params
    IN Returned([r0 EXCEPT
           !.params = <<>>,
           !.data = IF DataTruthy(r0.data) THEN NoData ELSE @,
           !.url.query = new_query_string])

_modify_request_before_signing(self, request) ==
    CASE self.kind = "S3SigV4Auth" ->
             S3SigV4Auth_modify_request_before_signing(self, request)
      [] self.kind = "S3ExpressAuth" ->
             S3ExpressAuth_modify_request_before_signing(self, request)
      [] self.kind \in SigV4QueryAuthFamily ->
             SigV4QueryAuth_modify_request_before_signing(self, request)
      [] self.kind = "S3ExpressQueryAuth" ->
             S3ExpressQueryAuth_modify_request_before_signing(self, request)
      [] OTHER -> SigV4Auth_modify_request_before_signing(self, request)

\* SigV4Auth._inject_signature_to_request
SigV4Auth_inject_signature_to_request(self, request, sig) ==
    LET l == <<"AWS4-HMAC-SHA256 Credential=" \o scope(self, request),
               "SignedHeaders="
                   \o signed_headers(self, headers_to_sign(self, request)),
               "Signature=" \o sig>>
    IN [request EXCEPT
           !.headers = HeaderSet(@, "Authorization", Join(l, ", "))]

\* SigV4QueryAuth, S3ExpressQueryAuth._inject_signature_to_request:
\* request.url += '&X-Amz-Signature=%s' % signature
SigV4QueryAuth_inject_signature_to_request(self, request, sig) ==
    [request EXCEPT !.url.query = Append(@, Item("X-Amz-Signature", sig))]

_inject_signature_to_request(self, request, sig) ==
    IF self.kind \in SigV4QueryAuthFamily \/ self.kind = "S3ExpressQueryAuth"
    THEN SigV4QueryAuth_inject_signature_to_request(self, request, sig)
    ELSE SigV4Auth_inject_signature_to_request(self, request, sig)

\* ------------------------------------------------------------------------
\* add_auth.  A call yields the request as it leaves it, the exception it
\* raised ("" when it returned), the number of clock readings it took and
\* the texts it computed on the way (what the code logs at debug level).
\* ------------------------------------------------------------------------

Outcome(request, error, clock_reads, canonical, to_sign, sig) ==
    [request |-> request, error |-> error, clock_reads |-> clock_reads,
     canonical_request |-> canonical, string_to_sign |-> to_sign,
     signature |-> sig]

\* credentials: None, or [access_key, secret_key, token]
Credentials(access_key, secret_key, token) ==
    [is_none |-> FALSE, access_key |-> access_key, secret_key |-> secret_key,
     token |-> token]

NoneCredentials ==
    [is_none |-> TRUE, access_key |-> None, secret_key |-> None,
     token |-> None]

\* SigV4Auth.add_auth, line 425: the signature is injected
SigV4Auth_add_auth_inject(self, request, canonical, to_sign, sig) ==
    Outcome(_inject_signature_to_request(self, request, sig), "", 1,
            canonical, to_sign, sig)

\* SigV4Auth.add_auth, line 422: the string to sign is signed
SigV4Auth_add_auth_sign(self, request, canonical, to_sign) ==
    SigV4Auth_add_auth_inject(self, request, canonical, to_sign,
                              signature(self, to_sign, request))

\* SigV4Auth.add_auth, lines 417-420: the canonical request, whose hashing
\* may have raised, leaves the body where the reads left it
SigV4Auth_add_auth_canonical(self, request, canonical) ==
    IF canonical.error # ""
    THEN Outcome([request EXCEPT !.body = canonical.body], canonical.error,
                 1, "", "", "")
    ELSE SigV4Auth_add_auth_sign(self,
             [request EXCEPT !.body = canonical.body], canonical.text,
             string_to_sign(self, [request EXCEPT !.body = canonical.body],
                            canonical.text))

\* SigV4Auth.add_auth, lines 416-417: the request, once modified, is
\* made canonical
SigV4Auth_add_auth_modified(self, modified) ==
    IF modified.error # ""
    THEN Outcome(modified.request, modified.error, 1, "", "", "")
    ELSE SigV4Auth_add_auth_canonical(self, modified.request,
             canonical_request(self, modified.request))

\* SigV4Auth.add_auth
SigV4Auth_add_auth(self, request, now) ==
    IF self.credentials.is_none
    THEN Outcome(request, "NoCredentialsError", 0, "", "", "")
    ELSE SigV4Auth_add_auth_modified(self,
             _modify_request_before_signing(self,
                 [request EXCEPT !.context.timestamp = SIGV4_TIMESTAMP(now)]))

\* json.dumps of one condition {k: v}
ConditionJson(c) == "{\"" \o c.k \o "\": \"" \o c.v \o "\"}"

\* json.dumps(policy): the policy dict holds the caller's expiration, if
\* any, and then conditions
json_dumps(policy) ==
    "{" \o (IF policy.expiration # None
            THEN "\"expiration\": \"" \o policy.expiration \o "\", " ELSE "")
        \o "\"conditions\": ["
        \o Join([i \in 1..Len(policy.conditions) |->
                     ConditionJson(policy.conditions[i])], ", ")
        \o "]}"

\* base64.b64encode(text), symbolically
b64encode(text) == "base64(" \o text \o ")"

\* context['s3-presign-post-fields'] and context['s3-presign-post-policy']:
\* None (absent) or the caller's dict.  A policy dict may lack conditions.
PostFields(present, items) == [present |-> present, items |-> items]

PostPolicy(present, expiration, has_conditions, conditions) ==
    [present |-> present, expiration |-> expiration,
     has_conditions |-> has_conditions, conditions |-> conditions]

\* S3SigV4PostAuth.add_auth and S3ExpressPostAuth.add_auth, which differ in
\* the name under which the session token is stored
PostAuth_add_auth(self, request, now, token_name) ==
    LET stamped == [request EXCEPT
                       !.context.timestamp = SIGV4_TIMESTAMP(now)]
        fields0 == IF stamped.context.post_fields.present
                   THEN stamped.context.post_fields.items ELSE <<>>
        policy0 == IF stamped.context.post_policy.present
                   THEN stamped.context.post_policy
                   ELSE PostPolicy(TRUE, None, FALSE, <<>>)
        conditions0 == IF policy0.has_conditions THEN policy0.conditions
                       ELSE <<>>
        \* policy['conditions'] = conditions; fields['x-amz-algorithm'] = ...
        policy1 == [policy0 EXCEPT !.has_conditions = TRUE,
                                   !.conditions = conditions0]
        fields1 == DictSet(fields0, "x-amz-algorithm", "AWS4-HMAC-SHA256")
        \* the caller's dicts are changed in place; fresh ones are locals
        partial == [stamped EXCEPT
            !.context.post_policy = IF @.present THEN policy1 ELSE @,
            !.context.post_fields =
                IF @.present THEN PostFields(TRUE, fields1) ELSE @]
    IN IF self.credentials.is_none
       THEN \* self.scope(request): None has no access_key
            Outcome(partial, "AttributeError", 1, "", "", "")
       ELSE
       LET fields2 == DictSet(DictSet(fields1,
                          "x-amz-credential", scope(self, stamped)),
                          "x-amz-date", stamped.context.timestamp)
           conditions1 == conditions0 \o
               <<Item("x-amz-algorithm", "AWS4-HMAC-SHA256"),
                 Item("x-amz-credential", scope(self, stamped)),
                 Item("x-amz-date", stamped.context.timestamp)>>
           has_token == self.credentials.token # None
           fields3 == IF has_token
                      THEN DictSet(fields2, token_name, self.credentials.token)
                      ELSE fields2
           conditions2 == IF has_token
                          THEN Append(conditions1,
                                      Item(token_name, self.credentials.token))
                          ELSE conditions1
           policy2 == [policy1 EXCEPT !.conditions = conditions2]
           encoded == b64encode(json_dumps(policy2))
           fields4 == DictSet(fields3, "policy", encoded)
           sig == signature(self, encoded, stamped)
           fields5 == DictSet(fields4, "x-amz-signature", sig)
       IN Outcome([stamped EXCEPT
                      !.context.post_fields = PostFields(TRUE, fields5),
                      !.context.post_policy = policy2],
                  "", 1, "", encoded, sig)

\* S3SigV4PostAuth.add_auth
S3SigV4PostAuth_add_auth(self, request, now) ==
    PostAuth_add_auth(self, request, now, "x-amz-security-token")

\* S3ExpressPostAuth.add_auth
S3ExpressPostAuth_add_auth(self, request, now) ==
    PostAuth_add_auth(self, request, now, "X-Amz-S3session-Token")

\* urlsplit(url).netloc
netloc(url) ==
    IF url.port # 0 THEN url.hostname \o ":" \o PortText(url.port)
    ELSE url.hostname

\* SigV2Auth.calc_signature without the test of lines 143-144: the key
\* Signature is signed like any other
calc_signature_signing_every_key(self, request, params) ==
    LET path == IF Len(request.url.path) = 0 THEN "/" ELSE request.url.path
        keys == SortedStrings({ params[i].k : i \in 1..Len(params) })
        pairs == [i \in 1..Len(keys) |->
                     quote(keys[i], {}) \o "="
                         \o quote(DictGet(params, keys[i]), {"-", "_", "~"})]
        qs == Join(pairs, "&")
        to_sign == request.method \o "\n" \o netloc(request.url) \o "\n"
                       \o path \o "\n" \o qs
    IN [qs |-> qs,
        b64 |-> b64encode(hmac_sha256(self.credentials.secret_key, to_sign)),
        string_to_sign |-> to_sign]

\* SigV2Auth.calc_signature: (qs, b64)
calc_signature(self, request, params) ==
    LET path == IF Len(request.url.path) = 0 THEN "/" ELSE request.url.path
        keys == SortedStrings({ params[i].k : i \in 1..Len(params) })
        kept == SelectSeq(keys, LAMBDA key : key # "Signature")
        pairs == [i \in 1..Len(kept) |->
                     quote(kept[i], {}) \o "="
                         \o quote(DictGet(params, kept[i]), {"-", "_", "~"})]
        qs == Join(pairs, "&")
        to_sign == request.method \o "\n" \o netloc(request.url) \o "\n"
                       \o path \o "\n" \o qs
    IN [qs |-> qs,
        b64 |-> b64encode(hmac_sha256(self.credentials.secret_key, to_sign)),
        string_to_sign |-> to_sign]

\* SigV2Auth.add_auth
SigV2Auth_add_auth(self, request, now) ==
    IF self.credentials.is_none
    THEN Outcome(request, "NoCredentialsError", 0, "", "", "")
    ELSE
    LET post == DataTruthy(request.data)
        params0 == IF post THEN request.data.items ELSE request.params
        params1 == DictSet(DictSet(DictSet(DictSet(params0,
                       "AWSAccessKeyId", self.credentials.access_key),
                       "SignatureVersion", "2"),
                       "SignatureMethod", "HmacSHA256"),
                       "Timestamp", ISO8601(now))
        params2 == IF Truthy(self.credentials.token)
                   THEN DictSet(params1, "SecurityToken",
                                self.credentials.token)
                   ELSE params1
        calc == calc_signature(self, request, params2)
        params3 == DictSet(params2, "Signature", calc.b64)
    IN Outcome(IF post THEN [request EXCEPT !.data.items = params3]
                       ELSE [request EXCEPT !.params = params3],
               "", 1, "", calc.string_to_sign, calc.b64)

\* SigV3Auth.add_auth
SigV3Auth_add_auth(self, request, now) ==
    IF self.credentials.is_none
    THEN Outcome(request, "NoCredentialsError", 0, "", "", "")
    ELSE
    LET h0 == HeaderSet(HeaderDel(request.headers, "Date"), "Date",
                        formatdate(now, TRUE))
        h1 == IF Truthy(self.credentials.token)
              THEN HeaderSet(HeaderDel(h0, "X-Amz-Security-Token"),
                             "X-Amz-Security-Token", self.credentials.token)
              ELSE h0
        encoded_signature ==
            b64encode(hmac_sha256(self.credentials.secret_key,
                                  HeaderGet(h1, "Date")))
        sig == "AWS3-HTTPS AWSAccessKeyId=" \o self.credentials.access_key
                   \o ",Algorithm=HmacSHA256,Signature=" \o encoded_signature
        h2 == HeaderSet(HeaderDel(h1, "X-Amzn-Authorization"),
                        "X-Amzn-Authorization", sig)
    IN Outcome([request EXCEPT !.headers = h2], "", 1, "",
               HeaderGet(h1, "Date"), encoded_signature)

\* BearerAuth.add_auth
BearerAuth_add_auth(self, request, now) ==
    IF self.auth_token = None
    THEN Outcome(request, "NoAuthTokenError", 0, "", "", "")
    ELSE Outcome([request EXCEPT
                     !.headers = HeaderSet(HeaderDel(@, "Authorization"),
                                           "Authorization",
                                           "Bearer " \o self.auth_token)],
                 "", 0, "", "", "")

\* ------------------------------------------------------------------------
\* The registry and the resolver
\* ------------------------------------------------------------------------

\* the registry without the CRT signers, as when botocore.crt.auth is left out
AUTH_TYPE_MAPS_without_crt ==
    [tag \in {"v2", "v4", "v4-query", "v3", "v3https", "s3v4",
              "s3v4-query", "s3v4-presign-post",
              "v4-s3express", "v4-s3express-query",
              "v4-s3express-presign-post", "bearer"} |->
        CASE tag = "v2" -> "SigV2Auth"
          [] tag = "v4" -> "SigV4Auth"
          [] tag = "v4-query" -> "SigV4QueryAuth"
          [] tag = "v3" -> "SigV3Auth"
          [] tag = "v3https" -> "SigV3Auth"
          [] tag = "s3v4" -> "S3SigV4Auth"
          [] tag = "s3v4-query" -> "S3SigV4QueryAuth"
          [] tag = "s3v4-presign-post" -> "S3SigV4PostAuth"
          [] tag = "v4-s3express" -> "S3ExpressAuth"
          [] tag = "v4-s3express-query" -> "S3ExpressQueryAuth"
          [] tag = "v4-s3express-presign-post" -> "S3ExpressPostAuth"
          [] tag = "bearer" -> "BearerAuth"]

\* AUTH_TYPE_MAPS: scheme tag to signer class
AUTH_TYPE_MAPS ==
    [tag \in {"v2", "v4", "v4a", "v4-query", "v3", "v3https", "s3v4",
              "s3v4-query", "s3v4-presign-post", "s3v4a", "s3v4a-query",
              "v4-s3express", "v4-s3express-query",
              "v4-s3express-presign-post", "bearer"} |->
        CASE tag = "v2" -> "SigV2Auth"
          [] tag = "v4" -> "SigV4Auth"
          [] tag = "v4a" -> "CrtSigV4AsymAuth"
          [] tag = "v4-query" -> "SigV4QueryAuth"
          [] tag = "v3" -> "SigV3Auth"
          [] tag = "v3https" -> "SigV3Auth"
          [] tag = "s3v4" -> "S3SigV4Auth"
          [] tag = "s3v4-query" -> "S3SigV4QueryAuth"
          [] tag = "s3v4-presign-post" -> "S3SigV4PostAuth"
          [] tag = "s3v4a" -> "CrtS3SigV4AsymAuth"
          [] tag = "s3v4a-query" -> "CrtS3SigV4AsymQueryAuth"
          [] tag = "v4-s3express" -> "S3ExpressAuth"
          [] tag = "v4-s3express-query" -> "S3ExpressQueryAuth"
          [] tag = "v4-s3express-presign-post" -> "S3ExpressPostAuth"
          [] tag = "bearer" -> "BearerAuth"]

\* AUTH_TYPE_TO_SIGNATURE_VERSION: auth trait of the service model to scheme
\* tag
AUTH_TYPE_TO_SIGNATURE_VERSION ==
    [auth_type \in {"aws.auth#sigv4", "aws.auth#sigv4a",
                    "smithy.api#httpBearerAuth", "smithy.api#noAuth"} |->
        CASE auth_type = "aws.auth#sigv4" -> "v4"
          [] auth_type = "aws.auth#sigv4a" -> "v4a"
          [] auth_type = "smithy.api#httpBearerAuth" -> "bearer"
          [] auth_type = "smithy.api#noAuth" -> "none"]

\* what a call of resolve_auth_type ends with: the value returned, or the
\* error raised
Resolved(value, error) == [done |-> TRUE, value |-> value, error |-> error]

\* the loop of resolve_auth_type from the i-th trait of the list on
RECURSIVE resolve_auth_type_from(_, _)
resolve_auth_type_from(auth_trait, i) ==
    IF i > Len(auth_trait)
    THEN Resolved(None, "UnsupportedSignatureVersionError")
    ELSE IF auth_trait[i] = "smithy.api#noAuth"
    THEN Resolved(AUTH_TYPE_TO_SIGNATURE_VERSION[auth_trait[i]], "")
    ELSE IF auth_trait[i] \in DOMAIN AUTH_TYPE_TO_SIGNATURE_VERSION
    THEN IF AUTH_TYPE_TO_SIGNATURE_VERSION[auth_trait[i]]
               \in DOMAIN AUTH_TYPE_MAPS
         THEN Resolved(AUTH_TYPE_TO_SIGNATURE_VERSION[auth_trait[i]], "")
         ELSE resolve_auth_type_from(auth_trait, i + 1)
    ELSE Resolved(None, "UnknownSignatureVersionError")

\* the resolver with the trait list walked from its end
resolve_auth_type_from_the_end(auth_trait) ==
    resolve_auth_type_from(
        [i \in 1..Len(auth_trait) |-> auth_trait[Len(auth_trait) + 1 - i]], 1)

\* the resolver without the raise on an unknown trait: it goes on scanning
resolve_auth_type_skipping_unknown_traits(auth_trait) ==
    resolve_auth_type_from(
        SelectSeq(auth_trait,
                  LAMBDA t : t \in DOMAIN AUTH_TYPE_TO_SIGNATURE_VERSION), 1)

\* resolve_auth_type(auth_trait)
resolve_auth_type(auth_trait) == resolve_auth_type_from(auth_trait, 1)

\* the registry's signers of this module (AUTH_TYPE_MAPS without the CRT ones)
SignerKinds ==
    {"SigV2Auth", "SigV3Auth", "SigV4Auth", "SigV4QueryAuth", "S3SigV4Auth",
     "S3SigV4QueryAuth", "S3SigV4PostAuth", "S3ExpressAuth",
     "S3ExpressQueryAuth", "S3ExpressPostAuth", "BearerAuth"}

\* signer.add_auth(request) with the clock reading `now`
add_auth(self, request, now) ==
    CASE self.kind = "SigV2Auth" -> SigV2Auth_add_auth(self, request, now)
      [] self.kind = "SigV3Auth" -> SigV3Auth_add_auth(self, request, now)
      [] self.kind = "BearerAuth" -> BearerAuth_add_auth(self, request, now)
      [] self.kind = "S3SigV4PostAuth" ->
             S3SigV4PostAuth_add_auth(self, request, now)
      [] self.kind = "S3ExpressPostAuth" ->
             S3ExpressPostAuth_add_auth(self, request, now)
      [] OTHER -> SigV4Auth_add_auth(self, request, now)

\* ------------------------------------------------------------------------
\* The state machine: one request, signed again and again
\* ------------------------------------------------------------------------

VARIABLES
    signer,     \* the signer instance that signs the request
    request,    \* the request (AWSRequest) being signed
    last,       \* the last add_auth call: its signer, clock reading, outcome,
                \* and whether it repeated the call before it
    calls,      \* number of add_auth calls made
    trait_list, \* the auth trait list given to resolve_auth_type
    resolved,   \* what resolve_auth_type ended with for trait_list
    threads,    \* the threads that share the signer: for each its own
                \* request and its position in add_auth
    mv,         \* a run of the s3 mv command: its command line, the
                \* operations called so far, its exit code
    body_checksum, \* what SigV4Auth.payload ended with for the request
    should_sha256_sign, \* what _should_sha256_sign_payload returned for it
    headers_block, \* what canonical_headers returned for the request's
                \* headers to sign
    document    \* the help document given to document_expires_string: its
                \* stack of writes and how the call ended

signing_vars == <<signer, request, last, calls>>

resolver_vars == <<trait_list, resolved>>

payload_vars == <<body_checksum, should_sha256_sign>>

function_vars == <<payload_vars, headers_block, document>>

vars == <<signing_vars, resolver_vars, threads, mv, function_vars>>

HeaderSigners == {"SigV4Auth", "S3SigV4Auth", "S3ExpressAuth"}

QuerySigners == {"SigV4QueryAuth", "S3SigV4QueryAuth", "S3ExpressQueryAuth"}

PostSigners == {"S3SigV4PostAuth", "S3ExpressPostAuth"}

\* SigV4Auth.__init__ and its overrides, TokenSigner.__init__
Signer(kind, credentials, auth_token) ==
    [kind |-> kind,
     credentials |-> credentials,
     auth_token |-> auth_token,
     service_name |-> IF kind \in {"SigV2Auth", "SigV3Auth", "SigV4Auth",
                                   "SigV4QueryAuth"} THEN "iam" ELSE "s3",
     region_name |-> "us-east-1",
     expires |-> IF kind = "S3ExpressQueryAuth" THEN 300 ELSE 3600]

\* the credentials a signer may be constructed with
CredentialChoices ==
    { NoneCredentials,
      Credentials("AKIDEXAMPLE", "wJalrXUtnFEMI", None),
      Credentials("AKIDEXAMPLE", "wJalrXUtnFEMI", "session-token-1") }

Signers(kind) ==
    IF kind = "BearerAuth"
    THEN { Signer(kind, NoneCredentials, tok) : tok \in {None, "abc.def"} }
    ELSE { Signer(kind, c, None) : c \in CredentialChoices }

Context(payload_signing_enabled, post_fields, post_policy) ==
    [timestamp |-> None,
     payload_signing_enabled |-> payload_signing_enabled,
     has_streaming_input |-> FALSE,
     checksum |-> [in |-> "none", name |-> ""],
     s3_payload_signing_enabled |-> None,
     post_fields |-> post_fields,
     post_policy |-> post_policy]

PlainContext(payload_signing_enabled) ==
    Context(payload_signing_enabled, PostFields(FALSE, <<>>),
            PostPolicy(FALSE, None, FALSE, <<>>))

Request(method, url, headers, params, data, body, context) ==
    [method |-> method, url |-> url, headers |-> headers, params |-> params,
     data |-> data, body |-> body, context |-> context]

HOST == "example.amazonaws.com"

\* header sets a request comes with
HeaderChoices ==
    { <<>>,
      <<Header("Host", HOST), Header("User-Agent", "aws-cli/2.0")>>,
      <<Header("Date", "Sat, 29 Aug 2015 00:00:00 GMT"),
        Header("X-Amz-Date", "20150829T000000Z")>>,
      <<Header("X-Amz-Security-Token", "session-token-0"),
        Header("Content-MD5", "1B2M2Y8AsgTpgAmY7PhCfg==")>> }

BodyChoices ==
    { NoBody,
      Body("bytes", "hello", <<>>, 0, 0),
      Body("reader", "", <<"chunk1", "chunk2">>, 0, 0),
      Body("reader", "", <<"chunk1", "chunk2">>, 0, 2) }

\* a request a header signer is given
HeaderRequest(scheme, headers, body, payload_signing_enabled) ==
    Request("GET", Url(scheme, HOST, 0, "/a/../c/key", <<Item("a", "1")>>),
            headers, <<>>, NoData, body,
            PlainContext(payload_signing_enabled))

\* url paths out of the ordinary: empty, and with duplicate slashes and dot
\* segments
PathChoices == {"", "//a/./b//"}

\* the requests a header signer is given: every header set without a body,
\* every body without headers, and the paths out of the ordinary
HeaderRequests ==
    { [HeaderRequest("https", <<>>, NoBody, TRUE) EXCEPT !.url.path = path] :
        path \in PathChoices }
    \cup
    { HeaderRequest(scheme, headers, NoBody, payload_signing_enabled) :
        scheme \in {"http", "https"},
        headers \in HeaderChoices,
        payload_signing_enabled \in BOOLEAN }
    \cup
    { HeaderRequest(scheme, <<>>, body, payload_signing_enabled) :
        scheme \in {"http", "https"},
        body \in BodyChoices,
        payload_signing_enabled \in BOOLEAN }

\* the requests a presigned-url signer is given: the operation's parameters
\* in the url, in request.params or in the form body, the paths out of the
\* ordinary, and an upload with or without the hash of its body in a header
QueryRequests ==
    { Request("GET", Url("https", HOST, 0, path, <<>>), <<>>, <<>>, NoData,
              NoBody, PlainContext(TRUE)) : path \in PathChoices }
    \cup
    { Request("GET", Url("https", HOST, 0, "/key", shape.query),
              headers, shape.params, shape.data, NoBody, PlainContext(TRUE)) :
        headers \in { <<>>,
                      <<Header("Host", HOST),
                        Header("content-type", BLACKLISTED_CONTENT_TYPE)>>,
                      <<Header("X-Amz-Security-Token", "session-token-0")>> },
        shape \in { [query |-> <<>>, params |-> <<>>, data |-> NoData],
                    [query |-> <<Item("a", "1"), Item("b", "x y")>>,
                     params |-> <<>>, data |-> NoData],
                    [query |-> <<>>, params |-> <<Item("p", "2")>>,
                     data |-> Data("dict", <<Item("d", "3")>>)] } }
    \cup
    { Request("PUT", Url("https", HOST, 0, "/key", <<>>), headers, <<>>,
              NoData, Body("bytes", "hello", <<>>, 0, 0),
              PlainContext(payload_signing_enabled)) :
        headers \in { <<>>,
                      <<Header("X-Amz-Content-SHA256",
                               sha256_hexdigest("hello"))>> },
        payload_signing_enabled \in BOOLEAN }

\* the requests a presigned-post signer is given: with or without the
\* caller's fields and policy in the context
PostRequests ==
    { Request("POST", Url("https", HOST, 0, "/", <<>>), <<>>, <<>>, NoData,
              NoBody, Context(TRUE, post.fields, post.policy)) :
        post \in { [fields |-> PostFields(FALSE, <<>>),
                    policy |-> PostPolicy(FALSE, None, FALSE, <<>>)],
                   [fields |-> PostFields(TRUE, <<Item("key", "k")>>),
                    policy |-> PostPolicy(TRUE, "2015-08-31T00:00:00Z", TRUE,
                                          <<Item("bucket", "b")>>)],
                   [fields |-> PostFields(TRUE, <<>>),
                    policy |-> PostPolicy(TRUE, "2015-08-31T00:00:00Z", FALSE,
                                          <<>>)] } }

\* the requests a SigV2 signer is given: a GET with params, one that comes
\* with a Signature among them, a POST with a form body
SigV2Requests ==
    { Request("GET", Url("https", HOST, 0, "", <<>>), <<>>,
              <<Item("Action", "ListUsers")>>, NoData, NoBody,
              PlainContext(TRUE)),
      Request("GET", Url("https", HOST, 0, "/", <<>>), <<>>,
              <<Item("Signature", "c3RhbGU="), Item("Action", "ListUsers")>>,
              NoData, NoBody, PlainContext(TRUE)),
      Request("POST", Url("https", HOST, 0, "/", <<>>), <<>>, <<>>,
              Data("dict", <<Item("Value", "hello world/+")>>), NoBody,
              PlainContext(TRUE)) }

\* the requests a SigV3 or bearer signer is given
PlainRequests ==
    { Request("GET", Url("https", HOST, 0, "/", <<>>), headers, <<>>,
              NoData, NoBody, PlainContext(TRUE)) :
        headers \in HeaderChoices \cup
                    { <<Header("Authorization", "Bearer old")>> } }

RequestsFor(kind) ==
    CASE kind \in HeaderSigners -> HeaderRequests
      [] kind \in QuerySigners -> QueryRequests
      [] kind \in PostSigners -> PostRequests
      [] kind = "SigV2Auth" -> SigV2Requests
      [] OTHER -> PlainRequests

\* no call of resolve_auth_type
NotResolved == [done |-> FALSE, value |-> None, error |-> ""]

NothingToResolve ==
    /\ trait_list = <<>>
    /\ resolved = NotResolved

\* no s3 mv command runs
NoMv == [pc |-> "idle"]

\* SigV4Auth.payload has not been called
NotHashed == [done |-> FALSE, value |-> None, error |-> ""]

\* _should_sha256_sign_payload has not been called
NotDecided == [done |-> FALSE, value |-> FALSE]

NothingToHash ==
    /\ body_checksum = NotHashed
    /\ should_sha256_sign = NotDecided

\* canonical_headers has not been called
NotCanonicalized == [done |-> FALSE, value |-> ""]

\* no help document is being written
NoDocument == [pc |-> "idle"]

\* none of the functions checked on their own is called
NoFunctionCalled ==
    /\ NothingToHash
    /\ headers_block = NotCanonicalized
    /\ document = NoDocument

NoCall(s) ==
    [signer |-> s, now |-> CHOOSE t \in Clock : TRUE, error |-> "",
     clock_reads |-> 0, canonical_request |-> "", string_to_sign |-> "",
     signature |-> "", resigned |-> FALSE]

Init ==
    /\ \E kind \in SignerKinds :
          /\ signer \in Signers(kind)
          /\ request \in RequestsFor(kind)
    /\ last = NoCall(signer)
    /\ calls = 0
    /\ NothingToResolve
    /\ threads = <<>>
    /\ mv = NoMv
    /\ NoFunctionCalled

\* a signer of the same class is constructed with the credentials (or the
\* token) of the moment
NewSigner(s) ==
    /\ calls < MaxCalls
    /\ s \in Signers(signer.kind)
    /\ s # signer
    /\ signer' = s
    /\ UNCHANGED <<request, last, calls>>
    /\ UNCHANGED <<resolver_vars, threads, mv, function_vars>>

\* signer.add_auth(request), the clock reading `now`
AddAuth(now) ==
    /\ calls < MaxCalls
    /\ \E outcome \in {add_auth(signer, request, now)} :
          /\ request' = outcome.request
          /\ last' = [signer |-> signer, now |-> now,
                      error |-> outcome.error,
                      clock_reads |-> outcome.clock_reads,
                      canonical_request |-> outcome.canonical_request,
                      string_to_sign |-> outcome.string_to_sign,
                      signature |-> outcome.signature,
                      resigned |-> /\ calls >= 1
                                   /\ last.error = ""
                                   /\ last.signer = signer
                                   /\ last.now = now]
    /\ calls' = calls + 1
    /\ UNCHANGED signer
    /\ UNCHANGED <<resolver_vars, threads, mv, function_vars>>

Next ==
    \/ \E kind \in SignerKinds : \E s \in Signers(kind) : NewSigner(s)
    \/ \E now \in Clock : AddAuth(now)

Spec == Init /\ [][Next]_vars

\* ------------------------------------------------------------------------
\* The state machine of the resolver: one trait list, resolved once
\* ------------------------------------------------------------------------

\* the auth traits of a service model: the four of
\* AUTH_TYPE_TO_SIGNATURE_VERSION and one that is not in it
AuthTraits ==
    DOMAIN AUTH_TYPE_TO_SIGNATURE_VERSION \cup {"aws.auth#sigv5"}

TraitLists == UNION { [1..n -> AuthTraits] : n \in 0..MaxTraits }

\* no signing goes on while the resolver runs
NothingToSign ==
    /\ signer = Signer("SigV4Auth", NoneCredentials, None)
    /\ request = HeaderRequest("https", <<>>, NoBody, TRUE)
    /\ last = NoCall(signer)
    /\ calls = 0

ResolverInit ==
    /\ trait_list \in TraitLists
    /\ resolved = NotResolved
    /\ NothingToSign
    /\ threads = <<>>
    /\ mv = NoMv
    /\ NoFunctionCalled

\* resolve_auth_type(trait_list)
ResolveAuthType ==
    /\ ~resolved.done
    /\ resolved' = resolve_auth_type(trait_list)
    /\ UNCHANGED trait_list
    /\ UNCHANGED <<signing_vars, threads, mv, function_vars>>

ResolverNext == ResolveAuthType

ResolverSpec == ResolverInit /\ [][ResolverNext]_vars

\* ------------------------------------------------------------------------
\* The state machine of a shared signer: two threads, each signing a request
\* of its own with the one signer, statement by statement
\* ------------------------------------------------------------------------

Threads == {1, 2}

\* the signers whose add_auth is SigV4Auth.add_auth (S3ExpressAuth.add_auth
\* calls it)
SigV4AddAuthSigners == HeaderSigners \cup QuerySigners

\* a thread about to call signer.add_auth(request)
Thread(request0) ==
    [pc |-> "add_auth", request |-> request0, request0 |-> request0,
     now |-> CHOOSE t \in Clock : TRUE, canonical_request |-> "",
     string_to_sign |-> "", signature |-> "", error |-> "",
     overlapped |-> FALSE]

\* the requests the threads sign, two for each signer class
ThreadRequests(kind) ==
    CASE kind \in HeaderSigners ->
             { HeaderRequest("https",
                   <<Header("Date", "Sat, 29 Aug 2015 00:00:00 GMT"),
                     Header("X-Amz-Date", "20150829T000000Z")>>, NoBody, TRUE),
               HeaderRequest("http", <<>>,
                   Body("reader", "", <<"chunk1", "chunk2">>, 0, 0), TRUE) }
      [] kind \in QuerySigners ->
             { Request("GET", Url("https", HOST, 0, "/key", query), <<>>,
                       <<>>, NoData, NoBody, PlainContext(TRUE)) :
                 query \in { <<>>, <<Item("a", "1"), Item("b", "x y")>> } }
      [] kind \in PostSigners ->
             { r \in PostRequests : ~r.context.post_policy.has_conditions }
      [] kind = "SigV2Auth" -> SigV2Requests
      [] OTHER ->
             { r \in PlainRequests : Len(r.headers) \in {0, 1} }

\* a signer whose add_auth drops the session token from its own credentials
self_after_dropping_the_token(self) ==
    [self EXCEPT !.credentials.token = None]

\* what a statement of add_auth leaves of the signer: no method of the
\* signers assigns an attribute of self outside __init__
self_after(self) == self

ThreadsInit ==
    /\ \E kind \in SignerKinds :
          /\ signer \in Signers(kind)
          /\ threads \in [Threads -> { Thread(r) : r \in ThreadRequests(kind) }]
    /\ request = HeaderRequest("https", <<>>, NoBody, TRUE)
    /\ last = NoCall(signer)
    /\ calls = 0
    /\ NothingToResolve
    /\ mv = NoMv
    /\ NoFunctionCalled

\* thread t moves on: its record becomes `next`; it overlaps the other
\* thread when that one is in the middle of its add_auth
ThreadMoves(t, next) ==
    /\ threads' = [threads EXCEPT ![t] =
           [next EXCEPT !.overlapped =
               @ \/ \E o \in Threads \ {t} :
                       threads[o].pc \notin {"add_auth", "done"}]]
    /\ signer' = self_after(signer)
    /\ UNCHANGED <<request, last, calls, resolver_vars, mv, function_vars>>

\* lines 410-411: if self.credentials is None: raise NoCredentialsError()
CheckCredentials(t) ==
    /\ signer.kind \in SigV4AddAuthSigners
    /\ threads[t].pc = "add_auth"
    /\ ThreadMoves(t,
           IF signer.credentials.is_none
           THEN [threads[t] EXCEPT !.pc = "done",
                                   !.error = "NoCredentialsError"]
           ELSE [threads[t] EXCEPT !.pc = "utcnow"])

\* lines 412-413: the clock is read, context['timestamp'] is set
ReadClock(t, now) ==
    /\ threads[t].pc = "utcnow"
    /\ ThreadMoves(t,
           [threads[t] EXCEPT
               !.pc = "_modify_request_before_signing",
               !.now = now,
               !.request.context.timestamp = SIGV4_TIMESTAMP(now)])

\* line 416: self._modify_request_before_signing(request)
ModifyRequest(t) ==
    /\ threads[t].pc = "_modify_request_before_signing"
    /\ \E modified \in {_modify_request_before_signing(signer,
                                                        threads[t].request)} :
          ThreadMoves(t,
              IF modified.error # ""
              THEN [threads[t] EXCEPT !.pc = "done",
                                      !.request = modified.request,
                                      !.error = modified.error]
              ELSE [threads[t] EXCEPT !.pc = "canonical_request",
                                      !.request = modified.request])

\* line 417: canonical_request = self.canonical_request(request)
CanonicalRequest(t) ==
    /\ threads[t].pc = "canonical_request"
    /\ \E canonical \in {canonical_request(signer, threads[t].request)} :
          ThreadMoves(t,
              IF canonical.error # ""
              THEN [threads[t] EXCEPT !.pc = "done",
                                      !.request.body = canonical.body,
                                      !.error = canonical.error]
              ELSE [threads[t] EXCEPT !.pc = "string_to_sign",
                                      !.request.body = canonical.body,
                                      !.canonical_request = canonical.text])

\* line 420: string_to_sign = self.string_to_sign(request, canonical_request)
StringToSign(t) ==
    /\ threads[t].pc = "string_to_sign"
    /\ ThreadMoves(t,
           [threads[t] EXCEPT
               !.pc = "signature",
               !.string_to_sign =
                   string_to_sign(signer, threads[t].request,
                                  threads[t].canonical_request)])

\* line 422: signature = self.signature(string_to_sign, request)
Signature(t) ==
    /\ threads[t].pc = "signature"
    /\ ThreadMoves(t,
           [threads[t] EXCEPT
               !.pc = "_inject_signature_to_request",
               !.signature = signature(signer, threads[t].string_to_sign,
                                       threads[t].request)])

\* line 425: self._inject_signature_to_request(request, signature)
InjectSignature(t) ==
    /\ threads[t].pc = "_inject_signature_to_request"
    /\ ThreadMoves(t,
           [threads[t] EXCEPT
               !.pc = "done",
               !.request = _inject_signature_to_request(
                               signer, threads[t].request,
                               threads[t].signature)])

\* add_auth of the other signers (SigV2Auth, SigV3Auth, BearerAuth and the
\* presigned-post signers), taken as one step
OtherAddAuth(t, now) ==
    /\ signer.kind \notin SigV4AddAuthSigners
    /\ threads[t].pc = "add_auth"
    /\ \E outcome \in {add_auth(signer, threads[t].request, now)} :
          ThreadMoves(t,
              [threads[t] EXCEPT !.pc = "done",
                                 !.now = now,
                                 !.request = outcome.request,
                                 !.error = outcome.error,
                                 !.signature = outcome.signature])

ThreadsNext ==
    \E t \in Threads :
        \/ CheckCredentials(t)
        \/ \E now \in Clock : ReadClock(t, now)
        \/ ModifyRequest(t)
        \/ CanonicalRequest(t)
        \/ StringToSign(t)
        \/ Signature(t)
        \/ InjectSignature(t)
        \/ \E now \in Clock : OtherAddAuth(t, now)

ThreadsSpec == ThreadsInit /\ [][ThreadsNext]_vars

\* ------------------------------------------------------------------------
\* The state machine of `aws s3 mv` from one S3 path to another, as
\* tests/functional/s3/test_mv_command.py fixes it: the operations called,
\* in order, the exit code and the error message
\* ------------------------------------------------------------------------

ACCESS_POINT_ARN ==
    "arn:aws:s3:us-west-2:123456789012:accesspoint/myaccesspoint"

ACCESS_POINT_ALIAS == "myaccesspoint-foobar-s3alias"

\* s3://bucket/key
S3Path(bucket, key) == [bucket |-> bucket, key |-> key]

\* S3PathResolver.has_underlying_s3_path: the bucket part names an access
\* point, whose bucket is known to S3 only
has_underlying_s3_path(path) ==
    path.bucket \in {ACCESS_POINT_ARN, ACCESS_POINT_ALIAS}

\* the last segment of a key
basename(key) == LET parts == Split(key, "/") IN parts[Len(parts)]

\* the destination with the key name implied: the source's name is taken
\* when the destination ends with "/"
dest_with_implied_name_as_given(src, dest) == dest

dest_with_implied_name(src, dest) ==
    IF dest.key = "" \/ CharAt(dest.key, Len(dest.key)) = "/"
    THEN S3Path(dest.bucket, dest.key \o basename(src.key))
    ELSE dest

\* the command line: s3 mv <src> <dest> [--validate-same-s3-paths]
\* [--copy-props default]; copy_props stands for the run of
\* test_with_copy_props (an object of 8 MiB with a large tag set)
Cmdline(src, dest, validate_same_s3_paths, copy_props) ==
    [src |-> src, dest |-> dest,
     validate_same_s3_paths |-> validate_same_s3_paths,
     copy_props |-> copy_props]

Cmdlines ==
    { Cmdline(S3Path(sb, sk), S3Path(db, dk), validate, copy_props) :
        sb \in {"bucket", ACCESS_POINT_ARN},
        sk \in {"key", "prefix/key"},
        db \in {"bucket", "otherbucket", ACCESS_POINT_ARN, ACCESS_POINT_ALIAS},
        dk \in {"key", "key2", "", "prefix/"},
        validate \in BOOLEAN,
        copy_props \in BOOLEAN }

\* an operation called: its name and its Bucket and Key parameters
Operation(name, path) == [name |-> name, Bucket |-> path.bucket, Key |-> path.key]

\* where the command goes after PutObjectTagging answered with the status
after_put_object_tagging_whatever_the_status(status) == "DeleteObject"

after_put_object_tagging(status) ==
    IF status = 200 THEN "DeleteObject" ELSE "cleanup"

MvInit ==
    /\ \E cmdline \in Cmdlines, underlying \in {"bucket", "differentbucket"} :
          /\ ~(has_underlying_s3_path(cmdline.src)
                /\ has_underlying_s3_path(cmdline.dest))
          /\ mv = [pc |-> "validate",
                   cmdline |-> cmdline,
                   dest |-> dest_with_implied_name(cmdline.src, cmdline.dest),
                   underlying_bucket |-> underlying,
                   operations_called |-> <<>>,
                   failed |-> "",
                   rc |-> -1,
                   stderr |-> ""]
    /\ NothingToSign
    /\ NothingToResolve
    /\ threads = <<>>
    /\ NoFunctionCalled

\* the command moves on
MvMoves(next) ==
    /\ mv.pc # "idle"
    /\ mv' = next
    /\ UNCHANGED <<signing_vars, resolver_vars, threads, function_vars>>

\* the command calls the operation and goes to pc
MvCalls(operation, pc) ==
    MvMoves([mv EXCEPT !.operations_called = Append(@, operation),
                       !.pc = pc])

CannotMvOntoItself ==
    [mv EXCEPT !.pc = "done", !.rc = 252,
               !.stderr = "Cannot mv a file onto itself"]

\* the paths are compared as they are written; with an access point on
\* one side and the same key they are resolved when
\* --validate-same-s3-paths (or AWS_CLI_S3_MV_VALIDATE_SAME_S3_PATHS) is
\* set, and a warning is printed when it is not
ValidatePaths ==
    /\ mv.pc = "validate"
    /\ MvMoves(
           IF mv.cmdline.src = mv.dest THEN CannotMvOntoItself
           ELSE IF mv.cmdline.src.key # mv.dest.key
                   \/ ~(has_underlying_s3_path(mv.cmdline.src)
                        \/ has_underlying_s3_path(mv.cmdline.dest))
           THEN [mv EXCEPT !.pc = "HeadObject"]
           ELSE IF ~mv.cmdline.validate_same_s3_paths
           THEN [mv EXCEPT !.pc = "HeadObject",
                           !.stderr = "warning: Provided s3 paths may resolve"]
           ELSE [mv EXCEPT !.pc = "resolve"])

\* the path of the command line that names an access point
AccessPointPath ==
    IF has_underlying_s3_path(mv.cmdline.src) THEN mv.cmdline.src
    ELSE mv.cmdline.dest

\* the other path of the command line
BucketPath ==
    IF has_underlying_s3_path(mv.cmdline.src) THEN mv.cmdline.dest
    ELSE mv.cmdline.src

\* an access point alias needs the account first
GetCallerIdentity ==
    /\ mv.pc = "resolve"
    /\ AccessPointPath.bucket = ACCESS_POINT_ALIAS
    /\ MvCalls(Operation("GetCallerIdentity", S3Path("", "")),
               "GetAccessPoint")

\* the access point's bucket is looked up and compared
GetAccessPoint ==
    /\ \/ mv.pc = "GetAccessPoint"
       \/ mv.pc = "resolve" /\ AccessPointPath.bucket = ACCESS_POINT_ARN
    /\ MvMoves(
           IF mv.underlying_bucket = BucketPath.bucket
           THEN [CannotMvOntoItself EXCEPT
                    !.operations_called =
                        Append(@, Operation("GetAccessPoint", S3Path("", "")))]
           ELSE [mv EXCEPT
                    !.operations_called =
                        Append(@, Operation("GetAccessPoint", S3Path("", ""))),
                    !.pc = "HeadObject"])

HeadObject ==
    /\ mv.pc = "HeadObject"
    /\ MvCalls(Operation("HeadObject", mv.cmdline.src),
               IF mv.cmdline.copy_props THEN "GetObjectTagging"
               ELSE "CopyObject")

CopyObject ==
    /\ mv.pc = "CopyObject"
    /\ MvCalls(Operation("CopyObject", mv.dest), "DeleteObject")

GetObjectTagging ==
    /\ mv.pc = "GetObjectTagging"
    /\ MvCalls(Operation("GetObjectTagging", mv.cmdline.src),
               "CreateMultipartUpload")

CreateMultipartUpload ==
    /\ mv.pc = "CreateMultipartUpload"
    /\ MvCalls(Operation("CreateMultipartUpload", mv.dest), "UploadPartCopy")

UploadPartCopy ==
    /\ mv.pc = "UploadPartCopy"
    /\ MvCalls(Operation("UploadPartCopy", mv.dest),
               "CompleteMultipartUpload")

CompleteMultipartUpload ==
    /\ mv.pc = "CompleteMultipartUpload"
    /\ MvCalls(Operation("CompleteMultipartUpload", mv.dest),
               "PutObjectTagging")

\* the tag set is too large for the copy itself: it is put on the
\* destination afterwards, and S3 answers 200 or 403
PutObjectTagging(status) ==
    /\ mv.pc = "PutObjectTagging"
    /\ MvMoves([mv EXCEPT
           !.operations_called =
               Append(@, Operation("PutObjectTagging", mv.dest)),
           !.failed = IF status = 200 THEN "" ELSE "PutObjectTagging",
           !.pc = after_put_object_tagging(status)])

\* the source is deleted and the command exits
DeleteObject ==
    /\ mv.pc = "DeleteObject"
    /\ MvMoves([mv EXCEPT
           !.operations_called =
               Append(@, Operation("DeleteObject", mv.cmdline.src)),
           !.pc = "done",
           !.rc = IF mv.failed = "" THEN 0 ELSE 1])

\* after the failed PutObjectTagging the copy is deleted and the command
\* exits with 1
DeleteCopiedObject ==
    /\ mv.pc = "cleanup"
    /\ MvMoves([mv EXCEPT
           !.operations_called =
               Append(@, Operation("DeleteObject", mv.dest)),
           !.pc = "done",
           !.rc = 1])

MvNext ==
    \/ ValidatePaths
    \/ GetCallerIdentity
    \/ GetAccessPoint
    \/ HeadObject
    \/ CopyObject
    \/ GetObjectTagging
    \/ CreateMultipartUpload
    \/ UploadPartCopy
    \/ CompleteMultipartUpload
    \/ \E status \in {200, 403} : PutObjectTagging(status)
    \/ DeleteObject
    \/ DeleteCopiedObject

MvSpec == MvInit /\ [][MvNext]_vars

\* ------------------------------------------------------------------------
\* SigV4Auth.payload on its own: one call on a request of any context,
\* scheme, checksum header and body
\* ------------------------------------------------------------------------

\* request.context['checksum']['request_algorithm']: absent, in the trailer,
\* in a header
ChecksumChoices ==
    { [in |-> "none", name |-> ""],
      [in |-> "trailer", name |-> "x-amz-checksum-crc32"],
      [in |-> "header", name |-> "x-amz-checksum-crc32"] }

\* the bodies payload is given: none, bytes, empty bytes, a reader at its
\* start, a reader after its first chunk, a reader whose second read raises
PayloadBodies ==
    BodyChoices \cup { Body("bytes", "", <<>>, 0, 0),
                       Body("reader", "", <<"chunk1", "chunk2">>, 1, 0) }

PayloadRequests ==
    { [HeaderRequest(scheme, headers, body, payload_signing_enabled)
          EXCEPT !.context.checksum = checksum,
                 !.context.s3_payload_signing_enabled = s3_config,
                 !.context.has_streaming_input = has_streaming_input] :
        scheme \in {"http", "https"},
        headers \in { <<>>,
                      <<Header("Content-MD5", "1B2M2Y8AsgTpgAmY7PhCfg==")>>,
                      <<Header("x-amz-checksum-crc32", "AAAAAA==")>> },
        body \in PayloadBodies,
        payload_signing_enabled \in BOOLEAN,
        checksum \in ChecksumChoices,
        s3_config \in {None, "True", "False"},
        has_streaming_input \in BOOLEAN }

PayloadInit ==
    /\ signer \in { Signer(kind, Credentials("AKIDEXAMPLE", "wJalrXUtnFEMI", None),
                           None) : kind \in {"SigV4Auth", "S3SigV4Auth", "S3ExpressAuth"} }
    /\ request \in PayloadRequests
    /\ last = NoCall(signer)
    /\ calls = 0
    /\ NothingToResolve
    /\ threads = <<>>
    /\ mv = NoMv
    /\ NothingToHash
    /\ headers_block = NotCanonicalized
    /\ document = NoDocument

\* self.payload(request): the value returned or the error raised, and the
\* body as the call leaves it
HashPayload ==
    /\ ~body_checksum.done
    /\ \E result \in { SigV4Auth_payload(signer, request) } :
          /\ body_checksum' = [done |-> TRUE, value |-> result.value,
                               error |-> result.error]
          /\ request' = [request EXCEPT !.body = result.body]
    /\ UNCHANGED <<signer, last, calls, resolver_vars, threads, mv>>
    /\ UNCHANGED <<should_sha256_sign, headers_block, document>>

\* self._should_sha256_sign_payload(request)
ShouldSha256SignPayload ==
    /\ ~should_sha256_sign.done
    /\ should_sha256_sign' =
           [done |-> TRUE,
            value |-> _should_sha256_sign_payload(signer, request)]
    /\ UNCHANGED <<signing_vars, resolver_vars, threads, mv, body_checksum>>
    /\ UNCHANGED <<headers_block, document>>

PayloadNext == HashPayload \/ ShouldSha256SignPayload

PayloadSpec == PayloadInit /\ [][PayloadNext]_vars

\* ------------------------------------------------------------------------
\* SigV4Auth.canonical_headers on its own: one call on the headers to sign
\* of a request with any header set
\* ------------------------------------------------------------------------

\* the headers a set is made of: names that differ in case only, a
\* blacklisted name, values with whitespace at their ends and inside
HeaderEntries ==
    { Header(name, value) :
        name \in {"X-Amz-Meta-K", "x-amz-meta-k", "User-Agent", "Accept"},
        value \in {" a  b ", "c"} }

HeaderSets == UNION { [1..n -> HeaderEntries] : n \in 0..MaxHeaders }

CanonicalHeadersInit ==
    /\ signer = Signer("SigV4Auth",
                       Credentials("AKIDEXAMPLE", "wJalrXUtnFEMI", None), None)
    /\ request \in { HeaderRequest("https", headers, NoBody, TRUE) :
                        headers \in HeaderSets }
    /\ last = NoCall(signer)
    /\ calls = 0
    /\ NothingToResolve
    /\ threads = <<>>
    /\ mv = NoMv
    /\ NothingToHash
    /\ headers_block = NotCanonicalized
    /\ document = NoDocument

\* self.canonical_headers(self.headers_to_sign(request)), lines 358-359
CanonicalHeaders ==
    /\ ~headers_block.done
    /\ headers_block' =
           [done |-> TRUE,
            value |-> canonical_headers(signer,
                                        headers_to_sign(signer, request))]
    /\ UNCHANGED <<signing_vars, resolver_vars, threads, mv, payload_vars>>
    /\ UNCHANGED document

CanonicalHeadersNext == CanonicalHeaders

CanonicalHeadersSpec ==
    CanonicalHeadersInit /\ [][CanonicalHeadersNext]_vars

\* ------------------------------------------------------------------------
\* s3events.document_expires_string on a help document: the document is its
\* stack of writes (pop_write takes the last one and raises IndexError when
\* there is none, push_write puts one on top) and the indentation of its
\* style
\* ------------------------------------------------------------------------

EXPIRES == "Expires -> (timestamp)"

\* doc.style.spaces() at that indentation (two spaces a level)
spaces(indentation) ==
    CASE indentation = 0 -> ""
      [] indentation = 1 -> "  "
      [] indentation = 2 -> "    "
      [] OTHER -> "      "

\* lines 73-80: doc.pop_write() until the Expires write is popped or the
\* document has no write left
RECURSIVE pop_until_expires(_, _)
pop_until_expires(writes, popped) ==
    IF Len(writes) = 0
    THEN [writes |-> writes, popped |-> popped, caught_index_error |-> TRUE]
    ELSE IF writes[Len(writes)] = EXPIRES
    THEN [writes |-> SubSeq(writes, 1, Len(writes) - 1),
          popped |-> Append(popped, writes[Len(writes)]),
          caught_index_error |-> FALSE]
    ELSE pop_until_expires(SubSeq(writes, 1, Len(writes) - 1),
                           Append(popped, writes[Len(writes)]))

\* lines 85-88: n times doc.push_write(popped.pop()); popped.pop() raises
\* IndexError when popped is empty
RECURSIVE put_back(_, _, _)
put_back(writes, popped, n) ==
    IF n = 0 THEN [writes |-> writes, popped |-> popped, error |-> ""]
    ELSE IF Len(popped) = 0
    THEN [writes |-> writes, popped |-> popped, error |-> "IndexError"]
    ELSE put_back(Append(writes, popped[Len(popped)]),
                  SubSeq(popped, 1, Len(popped) - 1), n - 1)

\* lines 90-101: the writes of the note and of the ExpiresString entry (the
\* backquotes of line 94 are written as apostrophes)
DeprecationNote(indentation) ==
    << "\n\n\n" \o spaces(indentation),
       ".. note::",
       "\n\n\n" \o spaces(indentation + 1),
       "This member has been deprecated. Please use 'ExpiresString' instead.\n",
       "\n\n" \o spaces(indentation),
       "\n\n" \o spaces(indentation),
       "ExpiresString -> (string)\n\n",
       "\tThe raw, unparsed value of the ''Expires'' field.",
       "\n\n" \o spaces(indentation) >>

\* lines 104-105 with the popped writes pushed from the first popped on
write_rest_in_popped_order(writes, popped) == writes \o popped

\* lines 104-105: while len(popped) > 0: doc.push_write(popped.pop())
write_rest(writes, popped) ==
    writes \o [i \in 1..Len(popped) |-> popped[Len(popped) + 1 - i]]

\* lines 83-105, once the Expires write is found and put back with the
\* three writes after it
document_expires_string_found(doc, back) ==
    IF back.error # ""
    THEN [doc EXCEPT !.pc = "done", !.writes = back.writes,
                     !.error = back.error]
    ELSE [doc EXCEPT !.pc = "done",
                     !.writes = write_rest(
                         back.writes \o DeprecationNote(doc.indentation),
                         back.popped)]

\* lines 83-105, after the loop of lines 73-80
document_expires_string_popped(doc, p) ==
    IF p.caught_index_error
    THEN [doc EXCEPT !.pc = "done",
                     !.writes = write_rest(p.writes, p.popped)]
    ELSE document_expires_string_found(doc, put_back(p.writes, p.popped, 4))

\* document_expires_string(help_command)
document_expires_string(doc) ==
    document_expires_string_popped(doc, pop_until_expires(doc.writes, <<>>))

\* the writes a help document is made of
WriteChoices == {EXPIRES, "\n\n", "Body -> (blob)", "\tThe date."}

Documents ==
    { [pc |-> "ready", writes |-> writes, indentation |-> indentation,
       error |-> ""] :
        writes \in UNION { [1..n -> WriteChoices] : n \in 0..MaxWrites },
        indentation \in {0, 1} }

DocumentInit ==
    /\ document \in Documents
    /\ NothingToSign
    /\ NothingToResolve
    /\ threads = <<>>
    /\ mv = NoMv
    /\ NothingToHash
    /\ headers_block = NotCanonicalized

\* the doc-output.s3api event calls document_expires_string(help_command)
DocumentExpiresString ==
    /\ document.pc = "ready"
    /\ document' = document_expires_string(document)
    /\ UNCHANGED <<signing_vars, resolver_vars, threads, mv, payload_vars>>
    /\ UNCHANGED headers_block

DocumentNext == DocumentExpiresString

DocumentSpec == DocumentInit /\ [][DocumentNext]_vars

\* ------------------------------------------------------------------------
\* Properties
\* ------------------------------------------------------------------------

\* the headers as a mapping: every (lowercased) name to its values in order
HeaderMap(headers) ==
    [n \in { headers[i].key : i \in 1..Len(headers) } |->
        HeaderGetAll(headers, n)]

\* the step is an add_auth call that repeats the previous, successful call:
\* same signer, same clock reading, on the request the previous call left
Resigns(kinds) ==
    /\ calls >= 1
    /\ calls' = calls + 1
    /\ last.error = ""
    /\ last.signer = signer
    /\ last'.now = last.now
    /\ signer.kind \in kinds

\* C1: for the header signers SigV4Auth, S3SigV4Auth and S3ExpressAuth and a
\* fixed clock reading, a second add_auth on the signed request succeeds and
\* leaves the same Authorization header and the same headers altogether as
\* the first call did.
C1_HeaderResignIsIdempotent ==
    [][Resigns(HeaderSigners) =>
          /\ last'.error = ""
          /\ HeaderGetAll(request'.headers, "Authorization")
                 = HeaderGetAll(request.headers, "Authorization")
          /\ HeaderMap(request'.headers) = HeaderMap(request.headers)
          /\ last'.signature = last.signature]_vars

\* a header signer has signed the same request twice at one clock reading
C1_Witness ==
    /\ calls = 2
    /\ last.signer.kind \in HeaderSigners
    /\ last.error = ""
    /\ last.resigned
    /\ Len(HeaderGetAll(request.headers, "Authorization")) = 1

\* the values of a parameter in a url's query string, in order
QueryValues(url, key) ==
    LET at == { i \in 1..Len(url.query) : url.query[i].k = key }
    IN [n \in 1..Cardinality(at) |-> url.query[Kth(at, n)].v]

\* C2: for the presigned-url signers SigV4QueryAuth, S3SigV4QueryAuth and
\* S3ExpressQueryAuth and a fixed clock reading, a second add_auth on the
\* presigned request leaves the same url and the same X-Amz-Signature as the
\* first call did.
C2_QueryResignIsIdempotent ==
    [][Resigns(QuerySigners) =>
          /\ request'.url = request.url
          /\ QueryValues(request'.url, "X-Amz-Signature")
                 = QueryValues(request.url, "X-Amz-Signature")]_vars

\* C3: for the presigned-POST signers S3SigV4PostAuth and S3ExpressPostAuth
\* and a fixed clock reading, a second add_auth on the same request context
\* leaves the same policy conditions, the same fields.policy and the same
\* fields.x-amz-signature as the first call did.
C3_PostResignIsIdempotent ==
    [][Resigns(PostSigners) =>
          LET before == request.context
              after == request'.context
          IN /\ after.post_policy.conditions = before.post_policy.conditions
             /\ DictGet(after.post_fields.items, "policy")
                    = DictGet(before.post_fields.items, "policy")
             /\ DictGet(after.post_fields.items, "x-amz-signature")
                    = DictGet(before.post_fields.items, "x-amz-signature")]_vars

\* the names listed in SignedHeaders: in the Authorization header
\* ("..., SignedHeaders=a;b, Signature=...") or in the X-Amz-SignedHeaders
\* parameter of the url
SignedHeadersListed(req) ==
    LET auth == HeaderGetAll(req.headers, "Authorization")
        lists ==
            { SubSeq(Split(auth[i], ",")[2], 16, Len(Split(auth[i], ",")[2])) :
                  i \in 1..Len(auth) }
            \cup { QueryValues(req.url, "X-Amz-SignedHeaders")[i] :
                  i \in 1..Len(QueryValues(req.url, "X-Amz-SignedHeaders")) }
    IN UNION { { Split(l, ";")[i] : i \in 1..Len(Split(l, ";")) } : l \in lists }

\* the lines of the canonical request the last call signed
SignedLines == LET lines == Split(last.canonical_request, "\n")
               IN { lines[i] : i \in 1..Len(lines) }

\* the canonical line of the request's header `name` as the request now is
CanonicalLine(self, req, name) ==
    LET values == HeaderGetAll(req.headers, name)
    IN name \o ":" \o Join([i \in 1..Len(values) |->
                               _header_value(self, values[i])], ",")

\* the last call is a successful call of a SigV4 header or query signer
SignedBySigV4 ==
    /\ calls >= 1
    /\ last.error = ""
    /\ last.signer.kind \in HeaderSigners \cup QuerySigners

\* C4 (as amended): after add_auth of a SigV4 header or query signer returns,
\* every name listed in SignedHeaders is the lowercased name of a header
\* present in request.headers, signed with the value the request carries --
\* except host when the request carries no Host header: it is then signed
\* with the host of the url and is not added to request.headers.
C4_SignedHeadersPresentExceptHost ==
    SignedBySigV4 =>
        \A n \in SignedHeadersListed(request) :
            IF n = "host" /\ ~HeaderIn(request.headers, "host")
            THEN ("host:" \o _host_from_url(request.url)) \in SignedLines
            ELSE /\ \E i \in 1..Len(request.headers) :
                        request.headers[i].key = n
                 /\ CanonicalLine(last.signer, request, n) \in SignedLines

\* a request that came with Host and a date header has been signed by a
\* header signer: host and x-amz-date are listed and present
C4_Witness ==
    /\ SignedBySigV4
    /\ HeaderIn(request.headers, "host")
    /\ {"host", "x-amz-date"} \subseteq SignedHeadersListed(request)

\* C4 (as stated): every name listed in SignedHeaders is the lowercased name
\* of a header present in request.headers after add_auth returns, with the
\* value that was signed.
C4_SignedHeadersPresent ==
    SignedBySigV4 =>
        \A n \in SignedHeadersListed(request) :
            /\ \E i \in 1..Len(request.headers) :
                   request.headers[i].key = n
            /\ CanonicalLine(last.signer, request, n) \in SignedLines

\* C5: when the body of the request is a seekable reader at position p at
\* the start of add_auth, the reader is at position p again when add_auth
\* ends, whether it returns or a read of the body raises during hashing.
C5_ReaderPositionRestored ==
    [][(calls' = calls + 1 /\ request.body.kind = "reader") =>
          request'.body.pos = request.body.pos]_vars

SigV4Family == HeaderSigners \cup QuerySigners \cup PostSigners

\* the request without its Expect, User-Agent and X-Amzn-Trace-Id headers
WithoutBlacklisted(req) ==
    [req EXCEPT !.headers =
        SelectSeq(@, LAMBDA h : h.key \notin SIGNED_HEADERS_BLACKLIST)]

\* the request with other Expect, User-Agent and X-Amzn-Trace-Id headers,
\* in other letter cases
WithOtherBlacklisted(req) ==
    [req EXCEPT !.headers =
        <<Header("EXPECT", "100-continue")>>
        \o SelectSeq(@, LAMBDA h : h.key \notin SIGNED_HEADERS_BLACKLIST)
        \o <<Header("user-agent", "Boto3/1.0"),
             Header("X-Amzn-Trace-Id", "Root=1-5e1b4151")>>]

\* what a call signed: its failure, canonical request, SignedHeaders list
\* and signature
Signed(outcome) ==
    <<outcome.error, outcome.canonical_request,
      SignedHeadersListed(outcome.request), outcome.signature>>

\* C6: a request and the requests that differ from it only in the presence,
\* the value or the letter case of Expect, User-Agent and X-Amzn-Trace-Id
\* headers get, from a SigV4 signer with the same credentials at the same
\* clock reading, the same canonical request, the same SignedHeaders list
\* and the same signature.
C6_BlacklistedHeadersNotSigned ==
    [][(calls' = calls + 1 /\ signer.kind \in SigV4Family) =>
          LET signed == <<last'.error, last'.canonical_request,
                          SignedHeadersListed(request'), last'.signature>>
          IN /\ Signed(add_auth(signer, WithoutBlacklisted(request),
                                last'.now)) = signed
             /\ Signed(add_auth(signer, WithOtherBlacklisted(request),
                                last'.now)) = signed]_vars

\* a request that carries a User-Agent header has been signed
C6_Witness ==
    /\ calls >= 1
    /\ last.error = ""
    /\ last.signer.kind \in SigV4Family
    /\ HeaderIn(request.headers, "User-Agent")
    /\ last.signature # ""
    /\ "user-agent" \notin SignedHeadersListed(request)

\* C7: add_auth of a credential-based signer (SigV2, SigV3, the SigV4
\* header, query and presigned-POST signers, their S3 and S3 Express
\* variants) whose credentials are unset fails with NoCredentials, and
\* add_auth of BearerAuth whose token is unset fails with NoAuthToken.
C7_UnsetCredentialsRaiseNoCredentials ==
    [][calls' = calls + 1 =>
          /\ (signer.kind # "BearerAuth" /\ signer.credentials.is_none)
                 => last'.error = "NoCredentialsError"
          /\ (signer.kind = "BearerAuth" /\ signer.auth_token = None)
                 => last'.error = "NoAuthTokenError"]_vars

\* C8: when add_auth of any signer fails, the request is as it was before
\* the call: headers, url, params, data and context (context.timestamp
\* included) are unchanged.
C8_FailureLeavesRequestUnchanged ==
    [][(calls' = calls + 1 /\ last'.error # "") =>
          /\ request'.headers = request.headers
          /\ request'.url = request.url
          /\ request'.params = request.params
          /\ request'.data = request.data
          /\ request'.context = request.context]_vars

\* the headers a SigV4 header signer writes and must clear
SignerWritten ==
    {"Authorization", "X-Amz-Date", "X-Amz-Security-Token",
     "X-Amz-Content-SHA256"}

\* the request without the headers a signer writes
WithoutSignerWritten(req) ==
    [req EXCEPT !.headers =
        SelectSeq(@, LAMBDA h : h.key \notin { lower(n) : n \in SignerWritten })]

\* the step is a successful add_auth of a header signer on a request whose
\* signer-written headers all come from the successful call before it (a
\* call by credentials with a token replaces any X-Amz-Security-Token)
SignsAfterEarlierCall ==
    /\ calls >= 1
    /\ calls' = calls + 1
    /\ last.error = ""
    /\ last'.error = ""
    /\ signer.kind \in HeaderSigners
    /\ HeaderIn(request.headers, "X-Amz-Security-Token")
           => Truthy(last.signer.credentials.token)

\* C9: after a later add_auth by a SigV4 header signer on the same request
\* (the credentials may differ from the earlier call's), each of
\* Authorization, X-Amz-Date, X-Amz-Security-Token and X-Amz-Content-SHA256
\* has at most one value, and it has exactly the values the call writes on a
\* request that carries none of them: nothing of the earlier call survives.
C9_EarlierValuesCleared ==
    [][SignsAfterEarlierCall =>
          LET fresh == add_auth(signer, WithoutSignerWritten(request),
                                last'.now).request
          IN \A name \in SignerWritten :
                /\ Len(HeaderGetAll(request'.headers, name)) <= 1
                /\ HeaderGetAll(request'.headers, name)
                       = HeaderGetAll(fresh.headers, name)]_vars

StartsWith(s, prefix) ==
    Len(s) >= Len(prefix) /\ SubSeq(s, 1, Len(prefix)) = prefix

\* the credential scope of the signer at a clock reading, from the reading
\* itself: access key, YYYYMMDD, region, service, aws4_request
ScopeAt(self, now) ==
    self.credentials.access_key \o "/" \o now.year \o now.month \o now.day
        \o "/" \o self.region_name \o "/" \o self.service_name
        \o "/aws4_request"

\* every date the call that made this step wrote is the clock reading `now`
DatesDerivedFrom(now) ==
    LET ts == SIGV4_TIMESTAMP(now)
        ymd == now.year \o now.month \o now.day
        cred == ScopeAt(signer, now)
        ok == last'.error = ""
        x_amz_date == HeaderGetAll(request'.headers, "X-Amz-Date")
        date == HeaderGetAll(request'.headers, "Date")
        authorization == HeaderGetAll(request'.headers, "Authorization")
        q_date == QueryValues(request'.url, "X-Amz-Date")
        q_cred == QueryValues(request'.url, "X-Amz-Credential")
        fields == request'.context.post_fields.items
    IN /\ signer.kind \in HeaderSigners =>
            /\ \A i \in 1..Len(x_amz_date) : x_amz_date[i] = ts
            /\ \A i \in 1..Len(date) : date[i] = formatdate(now, FALSE)
            /\ ok => /\ Len(x_amz_date) + Len(date) = 1
                     /\ Len(authorization) = 1
                     /\ StartsWith(authorization[1],
                            "AWS4-HMAC-SHA256 Credential=" \o cred \o ", ")
       /\ (signer.kind \in QuerySigners /\ ok) =>
            /\ Len(q_date) >= 1 /\ q_date[Len(q_date)] = ts
            /\ Len(q_cred) >= 1 /\ q_cred[Len(q_cred)] = cred
       /\ (signer.kind \in PostSigners /\ ok) =>
            /\ DictGet(fields, "x-amz-date") = ts
            /\ DictGet(fields, "x-amz-credential") = cred
       /\ (signer.kind \notin PostSigners /\ ok) =>
            StartsWith(last'.string_to_sign,
                       "AWS4-HMAC-SHA256\n" \o ts \o "\n" \o ymd \o "/")
       /\ ok => StartsWith(last'.signature,
                    "hex(hmac(hmac(hmac(hmac(hmac(AWS4"
                        \o signer.credentials.secret_key \o "," \o ymd \o ")")

\* C10 (as amended): every add_auth call of a SigV4-family signer that does
\* not fail with NoCredentials reads the clock exactly once, stores that
\* reading in context.timestamp, and every date it writes (X-Amz-Date header
\* or parameter, Date header, x-amz-date field, the date of the credential
\* scope and of the signing key) is that reading.  A call that fails with
\* NoCredentials returns before the clock is read.
C10_OneClockReadingUnlessNoCredentials ==
    [][(/\ calls' = calls + 1
        /\ signer.kind \in SigV4Family
        /\ last'.error # "NoCredentialsError") =>
          /\ last'.clock_reads = 1
          /\ request'.context.timestamp = SIGV4_TIMESTAMP(last'.now)
          /\ DatesDerivedFrom(last'.now)]_vars

\* a SigV4-family signer has signed, at the second clock reading, a request
\* it had signed at the first
C10_Witness ==
    /\ calls = 2
    /\ last.signer.kind \in SigV4Family
    /\ last.error = ""
    /\ last.clock_reads = 1
    /\ ~last.resigned
    /\ request.context.timestamp = SIGV4_TIMESTAMP(last.now)
    /\ last.signature # ""

\* C10 (as stated): every add_auth call of a SigV4-family signer reads the
\* clock exactly once, stores that reading in context.timestamp, and every
\* date it writes is that reading.
C10_OneClockReadingPerCall ==
    [][(calls' = calls + 1 /\ signer.kind \in SigV4Family) =>
          /\ last'.clock_reads = 1
          /\ request'.context.timestamp = SIGV4_TIMESTAMP(last'.now)
          /\ DatesDerivedFrom(last'.now)]_vars

\* ------------------------------------------------------------------------
\* Properties of the resolver (ResolverSpec)
\* ------------------------------------------------------------------------

\* the trait is in the trait-to-scheme map and its tag is in the registry
Registered(auth_type) ==
    /\ auth_type \in DOMAIN AUTH_TYPE_TO_SIGNATURE_VERSION
    /\ AUTH_TYPE_TO_SIGNATURE_VERSION[auth_type] \in DOMAIN AUTH_TYPE_MAPS

\* positions of the trait list whose trait has a tag in the registry
RegisteredAt == { i \in 1..Len(trait_list) : Registered(trait_list[i]) }

\* positions of the trait list that hold smithy.api#noAuth
NoAuthAt == { i \in 1..Len(trait_list) : trait_list[i] = "smithy.api#noAuth" }

\* resolve_auth_type returned (it did not raise)
ResolverReturned == resolved.done /\ resolved.error = ""

\* C11 (amended): whatever resolve_auth_type returns is either "none", when
\* smithy.api#noAuth comes in the list before every trait whose tag is in
\* the registry, or else a key of AUTH_TYPE_MAPS that is the tag of the first
\* trait in list order whose tag is in the registry.
C11_ReturnsFirstRegisteredTagOrNone ==
    ResolverReturned =>
        IF NoAuthAt # {} /\ (RegisteredAt = {} \/ Least(NoAuthAt) < Least(RegisteredAt))
        THEN resolved.value = "none"
        ELSE /\ RegisteredAt # {}
             /\ resolved.value \in DOMAIN AUTH_TYPE_MAPS
             /\ resolved.value =
                    AUTH_TYPE_TO_SIGNATURE_VERSION[trait_list[Least(RegisteredAt)]]

\* C11 witness: a list of two traits with different registered tags was
\* resolved to the tag of the first of them
C11_Witness ==
    /\ ResolverReturned
    /\ Len(trait_list) = 2
    /\ RegisteredAt = {1, 2}
    /\ trait_list[1] # trait_list[2]
    /\ resolved.value = AUTH_TYPE_TO_SIGNATURE_VERSION[trait_list[1]]

\* C11 (as claimed): every value resolve_auth_type returns is a key of
\* AUTH_TYPE_MAPS and is the tag of the first trait in list order whose tag is
\* in that registry.
C11_ReturnsFirstRegisteredTag ==
    ResolverReturned =>
        /\ resolved.value \in DOMAIN AUTH_TYPE_MAPS
        /\ RegisteredAt # {}
        /\ resolved.value =
               AUTH_TYPE_TO_SIGNATURE_VERSION[trait_list[Least(RegisteredAt)]]

\* positions of the trait list at which the scan ends: a trait that is not in
\* the trait-to-scheme map, or a trait for which resolve_auth_type returns
UnknownAt ==
    { i \in 1..Len(trait_list) :
        trait_list[i] \notin DOMAIN AUTH_TYPE_TO_SIGNATURE_VERSION }

ReturningAt == RegisteredAt \cup NoAuthAt

S3ExpressSigners == {"S3ExpressAuth", "S3ExpressQueryAuth", "S3ExpressPostAuth"}

\* the last add_auth call was made by an S3 Express signer and returned
SignedByS3Express ==
    /\ calls >= 1
    /\ last.error = ""
    /\ last.signer.kind \in S3ExpressSigners

\* the names (lowercased) of the POST fields and of the POST policy's
\* conditions of the request
PostNames(req) ==
    { lower(req.context.post_fields.items[i].k) :
        i \in 1..Len(req.context.post_fields.items) }
    \cup
    { lower(req.context.post_policy.conditions[i].k) :
        i \in 1..Len(req.context.post_policy.conditions) }

\* the request carries no X-Amz-Security-Token: not as a header, not as a
\* query parameter, not as a POST field or condition
NoSecurityToken(req) ==
    /\ ~HeaderIn(req.headers, "X-Amz-Security-Token")
    /\ \A i \in 1..Len(req.url.query) :
          lower(req.url.query[i].k) # "x-amz-security-token"
    /\ "x-amz-security-token" \notin PostNames(req)

\* the session token is carried by the S3 Express carrier of the flow
CarriesSessionToken(kind, req, token) ==
    CASE kind = "S3ExpressAuth" ->
             HeaderGetAll(req.headers, "x-amz-s3session-token") = <<token>>
      [] kind = "S3ExpressQueryAuth" ->
             QueryValues(req.url, "X-Amz-S3session-Token") = <<token>>
      [] kind = "S3ExpressPostAuth" ->
             /\ DictHas(req.context.post_fields.items, "X-Amz-S3session-Token")
             /\ DictGet(req.context.post_fields.items,
                        "X-Amz-S3session-Token") = token
             /\ \E i \in 1..Len(req.context.post_policy.conditions) :
                   req.context.post_policy.conditions[i] =
                       Item("X-Amz-S3session-Token", token)

\* C13: after add_auth by an S3 Express signer (header, query, presigned
\* POST), whatever the request held before, the request carries no
\* X-Amz-Security-Token (header, query parameter, POST field or condition) and
\* the signer's session token is carried by x-amz-s3session-token (header
\* flow) or X-Amz-S3session-Token (query and POST flows).
C13_S3ExpressSessionTokenOnly ==
    SignedByS3Express =>
        /\ NoSecurityToken(request)
        /\ last.signer.credentials.token # None =>
               CarriesSessionToken(last.signer.kind, request,
                                   last.signer.credentials.token)

\* the last add_auth call was made by a presigned-url signer and returned
SignedByQuerySigner ==
    /\ calls >= 1
    /\ last.error = ""
    /\ last.signer.kind \in QuerySigners

\* the parameters a presigned-url signer writes to the url before it signs
AuthParamNames ==
    {"X-Amz-Algorithm", "X-Amz-Credential", "X-Amz-Date", "X-Amz-Expires",
     "X-Amz-SignedHeaders", "X-Amz-Security-Token", "X-Amz-S3session-Token"}

\* the key=value fragments of the canonical query string (the third line of
\* the canonical request) that the last call signed
SignedQueryFragments ==
    LET fragments == Split(Split(last.canonical_request, "\n")[3], "&")
    IN { fragments[i] : i \in 1..Len(fragments) }

\* C14: for every presigned-url signer and every request, the canonical query
\* string of the signed canonical request contains all the auth parameters
\* written to the url (X-Amz-Algorithm, X-Amz-Credential, X-Amz-Date,
\* X-Amz-Expires with the configured value, X-Amz-SignedHeaders, and the token
\* parameter when there is a token) and does not contain X-Amz-Signature.
C14_CanonicalQueryHasAuthParams ==
    SignedByQuerySigner =>
        /\ \A i \in 1..Len(request.url.query) :
              request.url.query[i].k \in AuthParamNames =>
                  quote(request.url.query[i].k, {"-", "_", ".", "~"}) \o "="
                      \o quote(request.url.query[i].v, {"-", "_", ".", "~"})
                  \in SignedQueryFragments
        /\ ("X-Amz-Expires=" \o str(last.signer.expires))
               \in SignedQueryFragments
        /\ \A f \in SignedQueryFragments : ~StartsWith(f, "X-Amz-Signature=")

S3Signers ==
    {"S3SigV4Auth", "S3SigV4QueryAuth", "S3ExpressAuth", "S3ExpressQueryAuth"}

\* the last add_auth call was made by an S3 header or query signer and returned
SignedByS3 ==
    /\ calls >= 1
    /\ last.error = ""
    /\ last.signer.kind \in S3Signers

\* C15: for every S3 signer (S3SigV4Auth, S3SigV4QueryAuth, S3ExpressAuth,
\* S3ExpressQueryAuth) and every url, the canonical path line of the signed
\* canonical request is the url's path taken literally ('.' and '..' segments
\* and duplicate slashes kept), and is '/' when the url's path is empty.
C15_S3PathLiteralOrSlash ==
    SignedByS3 =>
        Split(last.canonical_request, "\n")[2] =
            IF request.url.path = "" THEN "/" ELSE request.url.path

\* C19: a SigV4 header signer's add_auth leaves exactly one of the headers
\* Date and X-Amz-Date: when the request had a Date header before the call, it
\* has Date, holding the date of context.timestamp as formatdate writes it,
\* and no X-Amz-Date; otherwise it has X-Amz-Date, holding context.timestamp,
\* and no Date.  This holds for every call of a sequence of calls (a call
\* that fails with NoCredentials does not touch the request).
C19_ExactlyOneDateHeader ==
    [][(/\ calls' = calls + 1
        /\ signer.kind \in HeaderSigners
        /\ last'.error # "NoCredentialsError") =>
           IF HeaderIn(request.headers, "Date")
           THEN /\ HeaderGetAll(request'.headers, "Date") =
                       <<formatdate(strptime(request'.context.timestamp),
                                    FALSE)>>
                /\ ~HeaderIn(request'.headers, "X-Amz-Date")
           ELSE /\ HeaderGetAll(request'.headers, "X-Amz-Date") =
                       <<request'.context.timestamp>>
                /\ ~HeaderIn(request'.headers, "Date")]_vars

\* C19 witness: the request came with Date and X-Amz-Date and was signed
\* twice; it holds the Date of the second call's clock reading alone
C19_Witness ==
    /\ calls = 2
    /\ last.error = ""
    /\ last.signer.kind \in HeaderSigners
    /\ request.context.timestamp = "20150830T123600Z"
    /\ HeaderGetAll(request.headers, "Date") =
           <<"Sun, 30 Aug 2015 12:36:00 -0000">>
    /\ ~HeaderIn(request.headers, "X-Amz-Date")

\* ------------------------------------------------------------------------
\* Properties of the shared signer (ThreadsSpec)
\* ------------------------------------------------------------------------

\* the thread's add_auth ended as the call alone, with the thread's clock
\* reading, ends on the thread's request
EndedAsAlone(self, thread) ==
    LET alone == add_auth(self, thread.request0, thread.now)
    IN /\ thread.request = alone.request
       /\ thread.error = alone.error
       /\ thread.signature = alone.signature

OperationNames ==
    [i \in 1..Len(mv.operations_called) |-> mv.operations_called[i].name]

\* the place of an operation in an S3-to-S3 mv: the lookups of the access
\* point, HeadObject, the tags of the source, the copy, the follow-up steps,
\* DeleteObject
Stage(name) ==
    CASE name \in {"GetCallerIdentity", "GetAccessPoint"} -> 0
      [] name = "HeadObject" -> 1
      [] name = "GetObjectTagging" -> 2
      [] name \in {"CopyObject", "CreateMultipartUpload", "UploadPartCopy",
                    "CompleteMultipartUpload"} -> 3
      [] name = "PutObjectTagging" -> 4
      [] name = "DeleteObject" -> 5

\* DeleteObject was called on the source
SourceDeleted ==
    \E i \in 1..Len(mv.operations_called) :
        mv.operations_called[i] = Operation("DeleteObject", mv.cmdline.src)

\* C17: in an S3-to-S3 mv the operations are called in the order HeadObject,
\* the copy (CopyObject or the multipart copy steps), the follow-up steps,
\* DeleteObject, and DeleteObject on the source is called only after all of
\* them succeeded: when PutObjectTagging on the destination fails the source
\* is not deleted, the one DeleteObject that is called is on the destination
\* key, and the command exits with code 1.
C17_SourceDeletedOnlyAfterSuccess ==
    mv.pc # "idle" =>
        /\ \A i, j \in 1..Len(mv.operations_called) :
              Stage(OperationNames[i]) < Stage(OperationNames[j]) => i < j
        /\ SourceDeleted =>
              /\ mv.failed = ""
              /\ \E i \in 1..Len(OperationNames) :
                    OperationNames[i] \in {"CopyObject",
                                           "CompleteMultipartUpload"}
              /\ mv.cmdline.copy_props =>
                    \E i \in 1..Len(OperationNames) :
                        OperationNames[i] = "PutObjectTagging"
        /\ (mv.failed = "PutObjectTagging" /\ mv.pc = "done") =>
              /\ ~SourceDeleted
              /\ mv.operations_called[Len(mv.operations_called)] =
                     Operation("DeleteObject",
                               S3Path(mv.cmdline.dest.bucket, mv.dest.key))
              /\ Cardinality({ i \in 1..Len(OperationNames) :
                                 OperationNames[i] = "DeleteObject" }) = 1
              /\ mv.rc = 1

\* C17 witness: PutObjectTagging failed after the multipart copy, and the
\* command has ended
C17_Witness ==
    /\ mv.pc = "done"
    /\ mv.failed = "PutObjectTagging"
    /\ Len(mv.operations_called) = 7
    /\ mv.rc = 1

\* the key the command line moves the object to: the name of the source is
\* implied when the destination ends with "/"
ImpliedDestKey ==
    LET src == mv.cmdline.src.key
        dest == mv.cmdline.dest.key
        slashes == { i \in 1..Len(src) : CharAt(src, i) = "/" }
        name == IF slashes = {} THEN src
                ELSE SubSeq(src, Least({ i \in slashes :
                                           \A j \in slashes : j <= i }) + 1,
                            Len(src))
    IN IF dest = "" \/ SubSeq(dest, Len(dest), Len(dest)) = "/"
       THEN dest \o name ELSE dest

\* source and destination are the same S3 object: the same key, and the same
\* bucket as written or, with --validate-same-s3-paths, an access point on
\* one side whose bucket is the bucket on the other side
SameS3Object ==
    /\ mv.cmdline.src.key = ImpliedDestKey
    /\ \/ mv.cmdline.src.bucket = mv.cmdline.dest.bucket
       \/ /\ mv.cmdline.validate_same_s3_paths
          /\ has_underlying_s3_path(mv.cmdline.src)
                 \/ has_underlying_s3_path(mv.cmdline.dest)
          /\ mv.underlying_bucket = BucketPath.bucket

TrailerChecksum == request.context.checksum.in = "trailer"

PayloadSigningDisabled == ~_should_sha256_sign_payload(signer, request)

SeekableBody == request.body.kind = "reader"

ByteBody == request.body.kind = "bytes" /\ request.body.bytes # ""

\* what a seekable body holds from where it stands
ContentFromPosition ==
    Join(SubSeq(request.body.chunks, request.body.pos + 1,
                Len(request.body.chunks)), "")

PayloadReturned == body_checksum.done /\ body_checksum.error = ""

\* C20: SigV4Auth.payload returns by the first row that applies: a trailer
\* checksum in the context gives STREAMING-UNSIGNED-PAYLOAD-TRAILER; else
\* disabled payload signing gives UNSIGNED-PAYLOAD; else a seekable body
\* gives the SHA-256 hex digest of its content from the current position;
\* else a byte body gives its digest; else the digest of the empty string
C20_PayloadDecisionTable ==
    PayloadReturned =>
       /\ TrailerChecksum =>
             body_checksum.value = "STREAMING-UNSIGNED-PAYLOAD-TRAILER"
       /\ (~TrailerChecksum /\ PayloadSigningDisabled) =>
             body_checksum.value = "UNSIGNED-PAYLOAD"
       /\ (~TrailerChecksum /\ ~PayloadSigningDisabled /\ SeekableBody) =>
             body_checksum.value = sha256_hexdigest(ContentFromPosition)
       /\ (~TrailerChecksum /\ ~PayloadSigningDisabled /\ ~SeekableBody
              /\ ByteBody) =>
             body_checksum.value = sha256_hexdigest(request.body.bytes)
       /\ (~TrailerChecksum /\ ~PayloadSigningDisabled /\ ~SeekableBody
              /\ ~ByteBody) =>
             body_checksum.value = sha256_hexdigest("")

\* a trailer checksum wins over disabled payload signing and a seekable body
\* that stands after its first chunk
C20_Witness ==
    /\ PayloadReturned
    /\ TrailerChecksum /\ PayloadSigningDisabled /\ SeekableBody
    /\ request.body.pos = 1
    /\ body_checksum.value = "STREAMING-UNSIGNED-PAYLOAD-TRAILER"

\* ------------------------------------------------------------------------
\* Properties of the signers, continued (Spec)
\* ------------------------------------------------------------------------

\* the payload line (the last line) of the canonical request the last call
\* signed
SignedPayloadLine ==
    LET lines == Split(last.canonical_request, "\n") IN lines[Len(lines)]

\* the SHA-256 hex digest of a body: of what a reader holds from where it
\* stands, of the bytes, of the empty string when there is no body
BodyDigest(body) ==
    IF body.kind = "reader"
    THEN sha256_hexdigest(Join(SubSeq(body.chunks, body.pos + 1,
                                      Len(body.chunks)), ""))
    ELSE IF body.kind = "bytes" THEN sha256_hexdigest(body.bytes)
    ELSE sha256_hexdigest("")

\* the last add_auth call was made by the generic SigV4 header signer on a
\* url that is not https, and returned
SignedBySigV4AuthNotOverHttps ==
    /\ calls >= 1
    /\ last.error = ""
    /\ last.signer.kind = "SigV4Auth"
    /\ request.url.scheme # "https"
    /\ request.context.checksum.in # "trailer"

\* C21: for the generic SigV4 header signer and a request with no trailer
\* checksum, when the url is not https the payload is always signed: the
\* payload line of the signed canonical request is the SHA-256 hex digest
\* of the body, and the request does not get the header
\* X-Amz-Content-SHA256: UNSIGNED-PAYLOAD, whatever
\* context.payload_signing_enabled is.
C21_PayloadSignedUnlessHttps ==
    SignedBySigV4AuthNotOverHttps =>
        /\ SignedPayloadLine = BodyDigest(request.body)
        /\ \A i \in 1..Len(request.headers) :
              request.headers[i].key = "x-amz-content-sha256" =>
                  request.headers[i].value # "UNSIGNED-PAYLOAD"

\* ------------------------------------------------------------------------
\* Properties of the payload-signing policy (PayloadSpec)
\* ------------------------------------------------------------------------

\* the header whose presence lets an S3 signer leave the payload unsigned
\* over https
ChecksumHeader ==
    IF request.context.checksum.in = "header"
    THEN request.context.checksum.name ELSE "Content-MD5"

ExplicitlyConfigured == request.context.s3_payload_signing_enabled # None

MustSign ==
    request.url.scheme # "https" \/ ~HeaderIn(request.headers, ChecksumHeader)

\* the generic policy: sign unless the url is https and
\* context.payload_signing_enabled is false
GenericPolicy ==
    request.url.scheme # "https" \/ request.context.payload_signing_enabled

S3PolicyDecided ==
    should_sha256_sign.done /\ signer.kind \in {"S3SigV4Auth", "S3ExpressAuth"}

\* C22: for the S3 header signer and its descendants the decision to sign
\* the payload is: an explicit client_config.s3.payload_signing_enabled is
\* returned as is; otherwise sign if the url is not https or the checksum
\* header (Content-MD5, or the header named by an in-header checksum
\* algorithm) is absent; otherwise do not sign if has_streaming_input is
\* true; otherwise the generic policy decides.
C22_S3PayloadSigningPolicy ==
    S3PolicyDecided =>
       /\ ExplicitlyConfigured =>
             should_sha256_sign.value =
                 (request.context.s3_payload_signing_enabled = "True")
       /\ (~ExplicitlyConfigured /\ MustSign) => should_sha256_sign.value
       /\ (~ExplicitlyConfigured /\ ~MustSign
              /\ request.context.has_streaming_input) =>
             ~should_sha256_sign.value
       /\ (~ExplicitlyConfigured /\ ~MustSign
              /\ ~request.context.has_streaming_input) =>
             should_sha256_sign.value = GenericPolicy

\* a streaming input over http without explicit configuration: signed
C22_Witness ==
    /\ S3PolicyDecided
    /\ ~ExplicitlyConfigured
    /\ request.url.scheme = "http"
    /\ HeaderIn(request.headers, ChecksumHeader)
    /\ request.context.checksum.in = "header"
    /\ request.context.has_streaming_input
    /\ ~request.context.payload_signing_enabled
    /\ should_sha256_sign.value

\* ------------------------------------------------------------------------
\* Properties of the canonical headers block (CanonicalHeadersSpec)
\* ------------------------------------------------------------------------

\* the distinct lowercased names of the header set to sign: the request's
\* headers outside the blacklist, and host
NamesToSign ==
    ({ request.headers[i].key : i \in 1..Len(request.headers) }
        \ {"expect", "user-agent", "x-amzn-trace-id"}) \cup {"host"}

\* all values of that name, in the order of the request
ValuesToSign(name) ==
    IF name = "host" /\ ~HeaderIn(request.headers, "host")
    THEN <<_host_from_url(request.url)>>
    ELSE HeaderGetAll(request.headers, name)

\* strip the ends, collapse every whitespace run to one space
trimall(value) == Join(SplitWords(value), " ")

BlockLines == Split(headers_block.value, "\n")

\* the block has one line per name to sign, the lines in the order of their
\* names, and the line of each name is name:value(name)
BlockHasLines(value(_)) ==
    /\ Len(BlockLines) = Cardinality(NamesToSign)
    /\ \A name \in NamesToSign :
          \E i \in 1..Len(BlockLines) :
              BlockLines[i] = name \o ":" \o value(name)
    /\ \A i, j \in 1..Len(BlockLines) :
          i < j => StrLess(Split(BlockLines[i], ":")[1],
                           Split(BlockLines[j], ":")[1])

EachTrimmedThenJoined(name) ==
    Join([i \in 1..Len(ValuesToSign(name)) |->
             trimall(ValuesToSign(name)[i])], ",")

JoinedThenTrimmed(name) == trimall(Join(ValuesToSign(name), ","))

\* C23 (as amended): for every header set, the canonical headers block has
\* one line per distinct lowercased header name outside the blacklist, in
\* lexicographic order of the names, and the value of a line is the result
\* of applying trimall to each value of that name and then joining the
\* trimmed values with ','.
C23_TrimallThenJoin ==
    headers_block.done => BlockHasLines(EachTrimmedThenJoined)

\* a name given twice, in different case, with whitespace around the comma
C23_Witness ==
    /\ headers_block.done
    /\ Len(request.headers) = 3
    /\ HeaderGetAll(request.headers, "x-amz-meta-k") = <<" a  b ", " a  b ">>
    /\ HeaderIn(request.headers, "User-Agent")
    /\ headers_block.value =
           "host:example.amazonaws.com\nx-amz-meta-k:a b,a b"

\* C23 (as stated): ... the value of a line is the result of first joining
\* all values of that name with ',' and then applying trimall to the joined
\* string.
C23_JoinThenTrimall ==
    headers_block.done => BlockHasLines(JoinedThenTrimmed)

\* ------------------------------------------------------------------------
\* Properties of the presigned-url signers, continued (Spec)
\* ------------------------------------------------------------------------

\* the step is an add_auth call of a presigned-url signer that returns
PresignsUrl ==
    /\ calls' = calls + 1
    /\ signer.kind \in QuerySigners
    /\ last'.error = ""

\* the entries request.params and a mapping-shaped request.data hold
OperationEntries(req) ==
    { req.params[i] : i \in 1..Len(req.params) }
    \cup { req.data.items[i] : i \in 1..Len(req.data.items) }

IsAuthParam(item) == StartsWith(item.k, "X-Amz-")

\* C24: after add_auth by any presigned-url signer request.params is empty
\* and a mapping-shaped request.data is cleared, every entry they held is a
\* parameter of the url's query string, and in that query string all
\* operation parameters come before all X-Amz-* auth parameters.
C24_OperationParamsMovedToUrl ==
    [][PresignsUrl =>
          /\ request'.params = <<>>
          /\ request'.data = NoData
          /\ \A entry \in OperationEntries(request) :
                \E i \in 1..Len(request'.url.query) :
                    request'.url.query[i] = entry
          /\ \A i, j \in 1..Len(request'.url.query) :
                (i < j /\ IsAuthParam(request'.url.query[i])) =>
                    IsAuthParam(request'.url.query[j])]_vars

\* the last add_auth call was made by an S3 presigned-url signer and returned
SignedByS3QuerySigner ==
    /\ calls >= 1
    /\ last.error = ""
    /\ last.signer.kind \in {"S3SigV4QueryAuth", "S3ExpressQueryAuth"}

PresignsPost ==
    /\ calls' = calls + 1
    /\ signer.kind = "S3SigV4PostAuth"
    /\ last'.error = ""

\* the conditions the caller supplied in the context
SuppliedConditions(context) ==
    IF context.post_policy.present /\ context.post_policy.has_conditions
    THEN context.post_policy.conditions ELSE <<>>

\* fields[name] = value, and {name: value} is among the conditions
InFieldsAndConditions(context, name, value) ==
    /\ DictHas(context.post_fields.items, name)
    /\ DictGet(context.post_fields.items, name) = value
    /\ \E i \in 1..Len(context.post_policy.conditions) :
          context.post_policy.conditions[i] = Item(name, value)

\* name is a key of the fields map, or of one of the conditions
NamedInFieldsOrConditions(context, name) ==
    \/ DictHas(context.post_fields.items, name)
    \/ \E i \in 1..Len(context.post_policy.conditions) :
          context.post_policy.conditions[i].k = name

AddedConditionNames ==
    {"x-amz-algorithm", "x-amz-credential", "x-amz-date",
     "x-amz-security-token"}

\* what C26 says of the context `after` the call, `supplied` being the
\* conditions the caller gave
PostPresigned(self, after, supplied) ==
    /\ after.post_policy.present /\ after.post_policy.has_conditions
    /\ InFieldsAndConditions(after, "x-amz-algorithm", "AWS4-HMAC-SHA256")
    /\ \E value \in { DictGet(after.post_fields.items, "x-amz-credential") } :
          InFieldsAndConditions(after, "x-amz-credential", value)
    /\ InFieldsAndConditions(after, "x-amz-date", after.timestamp)
    /\ IF self.credentials.token # None
       THEN InFieldsAndConditions(after, "x-amz-security-token",
                                  self.credentials.token)
       ELSE ~NamedInFieldsOrConditions(after, "x-amz-security-token")
    /\ Len(after.post_policy.conditions) >= Len(supplied)
    /\ SubSeq(after.post_policy.conditions, 1, Len(supplied)) = supplied
    /\ \A i \in (Len(supplied) + 1)..Len(after.post_policy.conditions) :
          after.post_policy.conditions[i].k \in AddedConditionNames
    /\ DictGet(after.post_fields.items, "policy") =
           b64encode(json_dumps(after.post_policy))
    /\ DictGet(after.post_fields.items, "x-amz-signature") =
           signature(self, DictGet(after.post_fields.items, "policy"),
                     [context |-> after])

\* C26: after S3SigV4PostAuth.add_auth policy.conditions is a list; the
\* fields map and the conditions list both contain x-amz-algorithm =
\* AWS4-HMAC-SHA256, x-amz-credential, x-amz-date = context.timestamp and,
\* exactly when the credentials have a token, x-amz-security-token; the
\* conditions the caller supplied are kept, in their order, before the added
\* ones; fields.policy is the base64 of the JSON of that final policy, and
\* fields.x-amz-signature is the signature computed over fields.policy.
C26_PostFieldsAndPolicy ==
    [][PresignsPost =>
          PostPresigned(signer, request'.context,
                        SuppliedConditions(request.context))]_vars

\* ------------------------------------------------------------------------
\* Properties of the SigV2 signer (Spec)
\* ------------------------------------------------------------------------

\* the parameter map SigV2Auth.add_auth signs and writes to: the form body
\* of a POST, request.params of a GET
SigV2Params(req) ==
    IF req.data.kind = "dict" /\ Len(req.data.items) > 0
    THEN req.data.items ELSE req.params

\* the map without its entry of that key
DictWithout(d, key) == SelectSeq(d, LAMBDA item : item.k # key)

\* the key=value pairs of a SigV2 string to sign (its last line)
SigV2SignedPairs(to_sign) ==
    LET lines == Split(to_sign, "\n")
        pairs == Split(lines[Len(lines)], "&")
    IN { pairs[i] : i \in 1..Len(pairs) }

\* the step is a SigV2Auth.add_auth call that returns
SignsSigV2 ==
    /\ calls' = calls + 1
    /\ signer.kind = "SigV2Auth"
    /\ last'.error = ""

\* C27: the SigV2 string to sign never contains the key Signature: for
\* every parameter map the signature SigV2Auth computes is the same with and
\* without a Signature entry in the map, so re-signing a request that was
\* already signed (same signer, same timestamp) stores the same Signature.
C27_SigV2SkipsSignature ==
    [][SignsSigV2 =>
          /\ \A pair \in SigV2SignedPairs(last'.string_to_sign) :
                ~StartsWith(pair, "Signature=")
          /\ DictGet(SigV2Params(request'), "Signature") =
                 calc_signature(signer, request',
                     DictWithout(SigV2Params(request'), "Signature")).b64
          /\ Resigns({"SigV2Auth"}) =>
                 DictGet(SigV2Params(request'), "Signature") =
                     DictGet(SigV2Params(request), "Signature")]_vars

\* the request was signed, and then signed again at the same clock reading
C27_Witness ==
    /\ calls = 2
    /\ last.signer.kind = "SigV2Auth"
    /\ last.error = ""
    /\ last.resigned
    /\ request.method = "GET"
    /\ DictHas(request.params, "Action")
    /\ DictGet(request.params, "Signature") = last.signature

\* ------------------------------------------------------------------------
\* Properties of the resolver, continued (ResolverSpec)
\* ------------------------------------------------------------------------

\* C28: with the registry and the trait-to-scheme map of this module,
\* resolve_auth_type fails with UnsupportedSignatureVersion only for the
\* empty trait list; every non-empty list either returns a value or fails
\* with UnknownSignatureVersion, and the branch that skips a known but
\* unregistered trait is never taken: the call ends at the first trait of
\* the list.
C28_UnsupportedOnlyForEmptyList ==
    resolved.done =>
        /\ resolved.error = "UnsupportedSignatureVersionError" <=>
               trait_list = <<>>
        /\ trait_list # <<>> =>
               /\ resolved.error \in {"", "UnknownSignatureVersionError"}
               /\ resolved.error = "" <=> resolved.value # None
               /\ resolved = resolve_auth_type(<<trait_list[1]>>)
               /\ \A i \in 1..Len(trait_list) :
                     (/\ trait_list[i] \in DOMAIN AUTH_TYPE_TO_SIGNATURE_VERSION
                      /\ trait_list[i] # "smithy.api#noAuth") =>
                         AUTH_TYPE_TO_SIGNATURE_VERSION[trait_list[i]]
                             \in DOMAIN AUTH_TYPE_MAPS

\* the trait whose signer comes from botocore.crt.auth stands first: it is
\* returned, not skipped
C28_Witness ==
    /\ resolved.done
    /\ Len(trait_list) = 3
    /\ trait_list[1] = "aws.auth#sigv4a"
    /\ trait_list[2] = "aws.auth#sigv5"
    /\ resolved.error = ""
    /\ resolved.value = "v4a"

\* ------------------------------------------------------------------------
\* Properties of document_expires_string (DocumentSpec)
\* ------------------------------------------------------------------------

\* the positions of the Expires write in the document
ExpiresAt(doc) == { i \in 1..Len(doc.writes) : doc.writes[i] = EXPIRES }

\* the step is a call of document_expires_string
CallsDocumentExpiresString == document.pc = "ready" /\ document'.pc = "done"

\* C29: document_expires_string does nothing when the document has no write
\* equal to 'Expires -> (timestamp)': after the call the stack of writes is
\* exactly the stack before the call, the same writes in the same order,
\* and nothing is inserted.
C29_NoExpiresNoChange ==
    [][(CallsDocumentExpiresString /\ ExpiresAt(document) = {}) =>
          /\ document'.error = ""
          /\ document'.writes = document.writes
          /\ document'.indentation = document.indentation]_vars

\* a document of five writes, not all the same, none of them Expires
C29_Witness ==
    /\ document.pc = "done"
    /\ document.error = ""
    /\ Len(document.writes) = 5
    /\ ExpiresAt(document) = {}
    /\ document.writes[1] # document.writes[5]

\* the last position of a set of positions
Greatest(S) == CHOOSE x \in S : \A y \in S : y <= x

\* C30: for every document whose writes contain 'Expires -> (timestamp)',
\* wherever that write stands (one of the last three writes included),
\* document_expires_string completes without raising, every original write
\* is still there in its original order, and the deprecation note and the
\* ExpiresString entry are inserted once, right after the Expires write and
\* the three writes that follow it.
C30_NoteInsertedAfterExpires ==
    [][(CallsDocumentExpiresString /\ ExpiresAt(document) # {}) =>
          LET at == Greatest(ExpiresAt(document))
              upto == IF at + 3 <= Len(document.writes)
                      THEN at + 3 ELSE Len(document.writes)
          IN /\ document'.error = ""
             /\ document'.writes =
                    SubSeq(document.writes, 1, upto)
                        \o DeprecationNote(document.indentation)
                        \o SubSeq(document.writes, upto + 1,
                                  Len(document.writes))]_vars

====
